---- MODULE Spec2Model ----
(***************************************************************************)
(* Model of the MCP orchestration layer of McpSystem:                      *)
(*   - MCPManager (server and client variants): the connect() scope, the   *)
(*     capability registry built by _fetch_tools, the router call_tool;    *)
(*   - ChatService: the bounded agent loops _process_with_openrouter       *)
(*     (behind process_message) and review_pr.                             *)
(*   - TelegramBot: the client's loop _process_with_openrouter;            *)
(*   - MCPHttpClient, the response bodies it reads, the server's lifespan. *)
(* Every awaited operation (connect, handshake, tools/list, tools/call,    *)
(* model completion) is a step whose outcome the environment chooses.      *)
(***************************************************************************)
EXTENDS Integers, Sequences, FiniteSets, TLC

None == "None"

----------------------------------------------------------------------------
(* Bounds of the model *)

\* how many direct MCPManager.call_tool invocations one behaviour makes
MaxRouterCalls == 2
\* how many requested calls one model completion may carry
MaxCalls == 2

----------------------------------------------------------------------------
(* Generic helpers: Python dict (insertion-ordered keys) and list idioms *)

EmptyMap == [k \in {} |-> None]

\* dict.get(k): None when the key is absent
Get(m, k) == IF k \in DOMAIN m THEN m[k] ELSE None

\* d[k] = v
Put(m, k, v) == [x \in (DOMAIN m) \cup {k} |-> IF x = k THEN v ELSE m[x]]

SeqToSet(s) == {s[i] : i \in 1..Len(s)}

\* key in a dict whose keys are kept as a sequence in insertion order
Has(keys, k) == k \in SeqToSet(keys)

----------------------------------------------------------------------------
(* Configuration and environment *)

Providers == {"p1", "p2"}
ProviderOrder == <<"p1", "p2">>
Transports == {"stdio", "http"}
ToolNames == {"t1", "t2"}

\* what a provider may answer to tools/list
ToolLists == {<<>>, <<"t1">>, <<"t2">>, <<"t1", "t2">>}

\* the outcome of a list_tools() that raised, or was never made
ListFailed == <<"<failed>">>

\* the descriptor a provider p returns for tool t
Descriptor(p, t) == [name |-> t, description |-> p]

VARIABLES
    variant,            \* which MCPManager class runs: "server" | "client"
    MCP_SERVERS,        \* configured providers, in order: [name, transport]
    adapter,            \* per provider: Disconnected | Connected | Ready | Closed
    stdio_sessions,     \* server: keys of self.stdio_sessions, insertion order
    http_clients,       \* server: keys of self.http_clients, insertion order
    sessions,           \* client: keys of self.sessions, insertion order
    tools,              \* self.tools: merged catalog (list of descriptors)
    tool_server_map,    \* self.tool_server_map: name -> provider
    tool_transport_map, \* server: self.tool_transport_map: name -> transport
    exit_stack,         \* providers whose stdio contexts the AsyncExitStack holds
    connected,          \* server: self._connected
    mgr_pc,             \* position of connect(): idle|connecting|fetch|yielded|exited
    conn_i,             \* index into MCP_SERVERS of the provider being connected
    listed,             \* per provider: the tool list it returned, or ListFailed
    enter_error,        \* how entering the scope ended: None | cancelled | RuntimeError
    exit_how,           \* how the scope body ended: None | return | raise
    wire,               \* tools/call requests sent to providers, in order
    last_call,          \* outcome of the latest MCPManager.call_tool
    n_calls,            \* number of direct call_tool invocations so far
    histories,          \* ConversationManager._histories: user -> messages
    openrouter_tools,   \* ChatService.openrouter_tools (names of the catalog)
    agent,              \* per user slot: the running handler's locals
    http,               \* one MCPHttpClient object: its fields and its traffic
    norm,               \* one tool result being normalized: content and payload
    life,               \* the server's lifespan: position and the installed service
    sse,                \* one HTTP response body being read: frames and outcome
    turns               \* process_message invocations that have returned

vars == <<variant, MCP_SERVERS, adapter, stdio_sessions, http_clients,
          sessions, tools, tool_server_map, tool_transport_map, exit_stack,
          connected, mgr_pc, conn_i, listed, enter_error, exit_how, wire,
          last_call, n_calls, histories, openrouter_tools, agent, http, norm,
          life, sse, turns>>

\* the chat service's state, which no manager operation touches
agent_vars == <<histories, openrouter_tools, agent>>

\* the single adapter and the single result studied on their own
unit_vars == <<http, norm, life, sse, turns>>

\* the manager's state that a call_tool made by the agent loop leaves alone
mgr_static == <<variant, MCP_SERVERS, adapter, stdio_sessions, http_clients,
                sessions, tools, tool_server_map, tool_transport_map,
                exit_stack, connected, mgr_pc, conn_i, listed, enter_error,
                exit_how, n_calls>>

NoCall == [name |-> None, status |-> None, to |-> None, result |-> None]

\* MCPManager.__init__ (both variants)
MgrInit ==
    /\ adapter = [p \in Providers |-> "Disconnected"]
    /\ stdio_sessions = <<>>
    /\ http_clients = <<>>
    /\ sessions = <<>>
    /\ tools = <<>>
    /\ tool_server_map = EmptyMap
    /\ tool_transport_map = EmptyMap
    /\ exit_stack = <<>>
    /\ connected = FALSE
    /\ mgr_pc = "idle"
    /\ conn_i = 1
    /\ listed = [p \in Providers |-> ListFailed]
    /\ enter_error = None
    /\ exit_how = None
    /\ wire = <<>>
    /\ last_call = NoCall
    /\ n_calls = 0

\* the configurations explored: every assignment of transports to the
\* providers for the server; the client knows stdio providers only
ServerConfigs ==
    {[i \in 1..Len(ProviderOrder) |-> [name |-> ProviderOrder[i], transport |-> tr[i]]] :
        tr \in [1..Len(ProviderOrder) -> Transports]}

ClientConfigs ==
    {[i \in 1..Len(ProviderOrder) |-> [name |-> ProviderOrder[i], transport |-> "stdio"]]}

TransportOf(p) ==
    LET i == CHOOSE j \in 1..Len(MCP_SERVERS) : MCP_SERVERS[j].name = p
    IN MCP_SERVERS[i].transport

----------------------------------------------------------------------------
(* AsyncExitStack unwinding: every stdio context it holds is closed *)

Unwound(ad, stack) ==
    [p \in Providers |-> IF Has(stack, p) THEN "Closed" ELSE ad[p]]

----------------------------------------------------------------------------
(* Server MCPManager *)

\* connect(): entry of the scope up to the first provider
Connect ==
    /\ variant = "server"
    /\ mgr_pc = "idle"
    /\ exit_stack' = <<>>
    /\ conn_i' = 1
    /\ mgr_pc' = IF Len(MCP_SERVERS) = 0 THEN "fetch" ELSE "connecting"
    /\ UNCHANGED agent_vars
    /\ UNCHANGED unit_vars
    /\ UNCHANGED <<variant, MCP_SERVERS, adapter, stdio_sessions, http_clients,
                   sessions, tools, tool_server_map, tool_transport_map,
                   connected, listed, enter_error, exit_how, wire, last_call,
                   n_calls>>

ConnectOutcomes == {"ok", "connect_failed", "handshake_failed"}

\* _connect_http_server: MCPHttpClient(); connect(); initialize(); store
ConnectHttpServer(p, outcome) ==
    /\ adapter' = [adapter EXCEPT ![p] =
                     CASE outcome = "ok" -> "Ready"
                       [] outcome = "connect_failed" -> "Disconnected"
                       [] OTHER -> "Connected"]
    /\ http_clients' = IF outcome = "ok" /\ ~Has(http_clients, p)
                       THEN Append(http_clients, p) ELSE http_clients
    /\ UNCHANGED <<stdio_sessions, exit_stack>>

\* _connect_stdio_server: enter stdio_client and ClientSession on the stack,
\* initialize(), store
ConnectStdioServer(p, outcome) ==
    /\ adapter' = [adapter EXCEPT ![p] =
                     CASE outcome = "ok" -> "Ready"
                       [] outcome = "connect_failed" -> "Disconnected"
                       [] OTHER -> "Connected"]
    /\ exit_stack' = IF outcome = "connect_failed" THEN exit_stack
                     ELSE Append(exit_stack, p)
    /\ stdio_sessions' = IF outcome = "ok" /\ ~Has(stdio_sessions, p)
                         THEN Append(stdio_sessions, p) ELSE stdio_sessions
    /\ UNCHANGED http_clients

\* variant of ConnectServer without the try/except around the provider: a
\* provider that fails ends connect() before the scope is entered
ConnectServerPropagates(outcome) ==
    /\ variant = "server"
    /\ mgr_pc = "connecting"
    /\ conn_i <= Len(MCP_SERVERS)
    /\ LET cfg == MCP_SERVERS[conn_i]
           p == cfg.name
           stack == IF cfg.transport = "stdio" /\ outcome = "handshake_failed"
                    THEN Append(exit_stack, p) ELSE exit_stack
       IN IF outcome = "ok"
          THEN /\ IF cfg.transport = "http"
                  THEN ConnectHttpServer(p, outcome)
                  ELSE ConnectStdioServer(p, outcome)
               /\ mgr_pc' = IF conn_i = Len(MCP_SERVERS) THEN "fetch" ELSE "connecting"
               /\ UNCHANGED enter_error
          ELSE /\ adapter' = Unwound(adapter, stack)
               /\ exit_stack' = <<>>
               /\ mgr_pc' = "exited"
               /\ enter_error' = "RuntimeError"
               /\ UNCHANGED <<stdio_sessions, http_clients>>
    /\ conn_i' = conn_i + 1
    /\ UNCHANGED agent_vars
    /\ UNCHANGED unit_vars
    /\ UNCHANGED <<variant, MCP_SERVERS, sessions, tools, tool_server_map,
                   tool_transport_map, connected, listed, exit_how, wire,
                   last_call, n_calls>>

\* connect(): one turn of the loop over MCP_SERVERS; an Exception is logged
\* and the loop goes on
ConnectServer(outcome) ==
    /\ variant = "server"
    /\ mgr_pc = "connecting"
    /\ conn_i <= Len(MCP_SERVERS)
    /\ LET cfg == MCP_SERVERS[conn_i] IN
         IF cfg.transport = "http"
         THEN ConnectHttpServer(cfg.name, outcome)
         ELSE ConnectStdioServer(cfg.name, outcome)
    /\ conn_i' = conn_i + 1
    /\ mgr_pc' = IF conn_i = Len(MCP_SERVERS) THEN "fetch" ELSE "connecting"
    /\ UNCHANGED agent_vars
    /\ UNCHANGED unit_vars
    /\ UNCHANGED <<variant, MCP_SERVERS, sessions, tools, tool_server_map,
                   tool_transport_map, connected, listed, enter_error,
                   exit_how, wire, last_call, n_calls>>

\* asyncio.wait_for(mcp_context.__aenter__(), 30.0) in the lifespan cancels
\* connect() at the await it is suspended in. CancelledError is no Exception:
\* it leaves the loop, the AsyncExitStack unwinds, _cleanup() does not run.
\* `progress` is how far the provider being connected had got.
CancelEntering(progress) ==
    /\ variant = "server"
    /\ \/ /\ mgr_pc = "connecting"
          /\ conn_i <= Len(MCP_SERVERS)
          /\ LET cfg == MCP_SERVERS[conn_i]
                 p == cfg.name
                 reached == IF cfg.transport = "http" \/ progress = "handshake"
                            THEN "Connected" ELSE "Disconnected"
                 stack == IF cfg.transport = "stdio" /\ progress = "handshake"
                          THEN Append(exit_stack, p) ELSE exit_stack
             IN adapter' = Unwound([adapter EXCEPT ![p] = reached], stack)
       \/ /\ mgr_pc = "fetch"
          /\ progress = "handshake"
          /\ Len(http_clients) + Len(stdio_sessions) > 0
          /\ adapter' = Unwound(adapter, exit_stack)
    /\ exit_stack' = <<>>
    /\ mgr_pc' = "exited"
    /\ enter_error' = "cancelled"
    /\ UNCHANGED agent_vars
    /\ UNCHANGED unit_vars
    /\ UNCHANGED <<variant, MCP_SERVERS, stdio_sessions, http_clients, sessions,
                   tools, tool_server_map, tool_transport_map, connected,
                   conn_i, listed, exit_how, wire, last_call, n_calls>>

\* the part of _fetch_tools run for the providers of one dict, in key order:
\* acc = [tools, server_map, transport_map]; a provider whose list_tools()
\* raised is logged and skipped
RECURSIVE FetchFrom(_, _, _, _)
FetchFrom(keys, transport, listing, acc) ==
    IF keys = <<>> THEN acc
    ELSE LET p == Head(keys)
             lst == listing[p]
             RECURSIVE Reg(_, _)
             Reg(i, a) ==
                 IF i > Len(lst) THEN a
                 ELSE Reg(i + 1,
                          [tools |-> a.tools,
                           server_map |-> Put(a.server_map, lst[i], p),
                           transport_map |-> Put(a.transport_map, lst[i], transport)])
             next == IF lst = ListFailed THEN acc
                     ELSE Reg(1, [acc EXCEPT !.tools =
                                    acc.tools \o [i \in 1..Len(lst) |-> Descriptor(p, lst[i])]])
         IN FetchFrom(Tail(keys), transport, listing, next)

\* variant of ServerFetched that records every tool as an HTTP tool
ServerFetchedOneKind(listing) ==
    FetchFrom(stdio_sessions, "http", listing,
        FetchFrom(http_clients, "http", listing,
            [tools |-> <<>>, server_map |-> tool_server_map,
             transport_map |-> tool_transport_map]))

\* _fetch_tools (server): HTTP clients first, then stdio sessions
ServerFetched(listing) ==
    FetchFrom(stdio_sessions, "stdio", listing,
        FetchFrom(http_clients, "http", listing,
            [tools |-> <<>>, server_map |-> tool_server_map,
             transport_map |-> tool_transport_map]))

Listings(asked) ==
    {l \in [Providers -> ToolLists \cup {ListFailed}] :
        \A p \in Providers : p \notin asked => l[p] = ListFailed}

\* connect(): await self._fetch_tools(); self._connected = True; yield
FetchTools(listing) ==
    /\ variant = "server"
    /\ mgr_pc = "fetch"
    /\ listing \in Listings(SeqToSet(http_clients) \cup SeqToSet(stdio_sessions))
    /\ LET f == ServerFetched(listing) IN
         /\ tools' = f.tools
         /\ tool_server_map' = f.server_map
         /\ tool_transport_map' = f.transport_map
    /\ listed' = listing
    /\ connected' = TRUE
    /\ mgr_pc' = "yielded"
    /\ UNCHANGED agent_vars
    /\ UNCHANGED unit_vars
    /\ UNCHANGED <<variant, MCP_SERVERS, adapter, stdio_sessions, http_clients,
                   sessions, exit_stack, conn_i, enter_error, exit_how, wire,
                   last_call, n_calls>>

\* MCPHttpClient.close() for every client in http_clients
ClosedHttp(ad, keys) ==
    [p \in Providers |-> IF Has(keys, p) THEN "Closed" ELSE ad[p]]

\* the scope body ends (return or exception): finally: _cleanup(), then the
\* AsyncExitStack closes the stdio contexts
ScopeExit(how) ==
    /\ variant = "server"
    /\ mgr_pc = "yielded"
    /\ adapter' = Unwound(ClosedHttp(adapter, http_clients), exit_stack)
    /\ http_clients' = <<>>
    /\ stdio_sessions' = <<>>
    /\ exit_stack' = <<>>
    /\ connected' = FALSE
    /\ mgr_pc' = "exited"
    /\ exit_how' = how
    /\ UNCHANGED agent_vars
    /\ UNCHANGED unit_vars
    /\ UNCHANGED <<variant, MCP_SERVERS, sessions, tools, tool_server_map,
                   tool_transport_map, conn_i, listed, enter_error, wire,
                   last_call, n_calls>>

\* what a provider does with a tools/call request that reached it
Responses == {"ok", "timeout", "error"}

\* names a caller may ask for: the tools providers know and one nobody lists
CallNames == ToolNames \cup {"nope"}

\* call_tool / _call_http_tool / _call_stdio_tool (server): the outcome of
\* routing `name` when the provider, if asked, answers `resp`
ServerCallStatus(name, resp) ==
    LET server_name == Get(tool_server_map, name)
        transport == Get(tool_transport_map, name)
    IN IF server_name = None THEN "unknown_tool"
       ELSE IF transport = "http"
            THEN IF ~Has(http_clients, server_name) THEN "unavailable"
                 ELSE IF adapter[server_name] # "Ready" THEN "not_initialized"
                 ELSE resp
            ELSE IF ~Has(stdio_sessions, server_name) THEN "unavailable"
                 ELSE resp

\* the record of one call_tool: a request went to provider `to` exactly when
\* the status is a provider response
CallRecord(name, status) ==
    [name |-> name, status |-> status,
     to |-> IF status \in Responses THEN Get(tool_server_map, name) ELSE None,
     result |-> IF status = "ok" THEN "payload" ELSE None]

Sent(w, rec) ==
    IF rec.to = None THEN w
    ELSE Append(w, [to |-> rec.to, name |-> rec.name, status |-> rec.status])

\* variant of AdapterAfterCall in which an expired deadline tears down the
\* connection the call was sent on
AdapterAfterCallClosesOnTimeout(ad, rec) ==
    [p \in Providers |-> IF rec.status = "timeout" /\ rec.to = p THEN "Closed" ELSE ad[p]]

\* the adapters after asyncio.wait_for(session.call_tool(...), TOOL_CALL_TIMEOUT)
\* has returned or raised: the deadline cancels the awaited call only, and
\* no branch of call_tool touches a session or client
AdapterAfterCall(ad, rec) == ad

\* variant of RegistryAfterCall that forgets the routing entry of a tool
\* whose call failed
RegistryAfterCallDropsFailed(map, rec) ==
    IF rec.status \in {"timeout", "error"}
    THEN [t \in (DOMAIN map) \ {rec.name} |-> map[t]]
    ELSE map

\* self.tool_server_map after call_tool has returned or raised: the router
\* reads the table with .get() and assigns to no field of the manager
RegistryAfterCall(map, rec) == map

\* MCPManager.call_tool (server), called directly
CallTool(name, resp) ==
    /\ variant = "server"
    /\ mgr_pc \in {"idle", "yielded", "exited"}
    /\ n_calls < MaxRouterCalls
    /\ n_calls' = n_calls + 1
    /\ last_call' = CallRecord(name, ServerCallStatus(name, resp))
    /\ wire' = Sent(wire, last_call')
    /\ adapter' = AdapterAfterCall(adapter, last_call')
    /\ tool_server_map' = RegistryAfterCall(tool_server_map, last_call')
    /\ UNCHANGED agent_vars
    /\ UNCHANGED unit_vars
    /\ UNCHANGED <<variant, MCP_SERVERS, stdio_sessions, http_clients,
                   sessions, tools, tool_transport_map,
                   exit_stack, connected, mgr_pc, conn_i, listed, enter_error,
                   exit_how>>

----------------------------------------------------------------------------
(* Client MCPManager (stdio providers only) *)

\* connect(): entry of the scope up to the first provider
ClientConnect ==
    /\ variant = "client"
    /\ mgr_pc = "idle"
    /\ exit_stack' = <<>>
    /\ conn_i' = 1
    /\ mgr_pc' = IF Len(MCP_SERVERS) = 0 THEN "initializing" ELSE "connecting"
    /\ UNCHANGED agent_vars
    /\ UNCHANGED unit_vars
    /\ UNCHANGED <<variant, MCP_SERVERS, adapter, stdio_sessions, http_clients,
                   sessions, tools, tool_server_map, tool_transport_map,
                   connected, listed, enter_error, exit_how, wire, last_call,
                   n_calls>>

ClientConnectOutcomes == {"ok", "connect_failed"}

\* connect(): one turn of the loop: enter stdio_client and ClientSession,
\* store the session (not yet initialized)
ClientConnectServer(outcome) ==
    /\ variant = "client"
    /\ mgr_pc = "connecting"
    /\ conn_i <= Len(MCP_SERVERS)
    /\ LET p == MCP_SERVERS[conn_i].name IN
         /\ adapter' = [adapter EXCEPT ![p] =
                          IF outcome = "ok" THEN "Connected" ELSE "Disconnected"]
         /\ exit_stack' = IF outcome = "ok" THEN Append(exit_stack, p) ELSE exit_stack
         /\ sessions' = IF outcome = "ok" /\ ~Has(sessions, p)
                        THEN Append(sessions, p) ELSE sessions
    /\ conn_i' = conn_i + 1
    /\ mgr_pc' = IF conn_i = Len(MCP_SERVERS) THEN "initializing" ELSE "connecting"
    /\ UNCHANGED agent_vars
    /\ UNCHANGED unit_vars
    /\ UNCHANGED <<variant, MCP_SERVERS, stdio_sessions, http_clients, tools,
                   tool_server_map, tool_transport_map, connected, listed,
                   enter_error, exit_how, wire, last_call, n_calls>>

InitOutcomes(asked) ==
    {o \in [Providers -> {"ok", "failed"}] :
        \A p \in Providers : p \notin asked => o[p] = "failed"}

\* _initialize_sessions and _fetch_tools (client): initialize every stored
\* session (a failure is logged, the session stays stored), then list the
\* tools of every stored session; with no session at all _fetch_tools raises
\* and connect() fails before the scope is entered
ClientInitializeSessions(inits, listing) ==
    /\ variant = "client"
    /\ mgr_pc = "initializing"
    /\ inits \in InitOutcomes(SeqToSet(sessions))
    /\ listing \in Listings(SeqToSet(sessions))
    /\ LET ready == [p \in Providers |->
                       IF Has(sessions, p) /\ inits[p] = "ok" THEN "Ready" ELSE adapter[p]]
           f == FetchFrom(sessions, "stdio", listing,
                          [tools |-> <<>>, server_map |-> tool_server_map,
                           transport_map |-> EmptyMap])
       IN IF sessions = <<>>
          THEN /\ adapter' = Unwound(ready, exit_stack)
               /\ exit_stack' = <<>>
               /\ mgr_pc' = "exited"
               /\ enter_error' = "RuntimeError"
               /\ UNCHANGED <<tools, tool_server_map, listed>>
          ELSE /\ adapter' = ready
               /\ tools' = f.tools
               /\ tool_server_map' = f.server_map
               /\ listed' = listing
               /\ mgr_pc' = "yielded"
               /\ UNCHANGED <<exit_stack, enter_error>>
    /\ UNCHANGED agent_vars
    /\ UNCHANGED unit_vars
    /\ UNCHANGED <<variant, MCP_SERVERS, stdio_sessions, http_clients, sessions,
                   tool_transport_map, connected, conn_i, exit_how, wire,
                   last_call, n_calls>>

\* the scope body ends: finally: sessions.clear(); then the AsyncExitStack
\* closes every session and subprocess
ClientScopeExit(how) ==
    /\ variant = "client"
    /\ mgr_pc = "yielded"
    /\ adapter' = Unwound(adapter, exit_stack)
    /\ sessions' = <<>>
    /\ exit_stack' = <<>>
    /\ mgr_pc' = "exited"
    /\ exit_how' = how
    /\ UNCHANGED agent_vars
    /\ UNCHANGED unit_vars
    /\ UNCHANGED <<variant, MCP_SERVERS, stdio_sessions, http_clients, tools,
                   tool_server_map, tool_transport_map, connected, conn_i,
                   listed, enter_error, wire, last_call, n_calls>>

\* call_tool (client): the outcome of routing `name`
ClientCallStatus(name, resp) ==
    LET server_name == Get(tool_server_map, name)
    IN IF sessions = <<>> THEN "sessions_not_initialized"
       ELSE IF server_name = None THEN "unknown_tool"
       ELSE IF ~Has(sessions, server_name) THEN "unavailable"
       ELSE resp

\* MCPManager.call_tool (client), called directly
ClientCallTool(name, resp) ==
    /\ variant = "client"
    /\ mgr_pc \in {"idle", "yielded", "exited"}
    /\ n_calls < MaxRouterCalls
    /\ n_calls' = n_calls + 1
    /\ last_call' = CallRecord(name, ClientCallStatus(name, resp))
    /\ wire' = Sent(wire, last_call')
    /\ adapter' = AdapterAfterCall(adapter, last_call')
    /\ tool_server_map' = RegistryAfterCall(tool_server_map, last_call')
    /\ UNCHANGED agent_vars
    /\ UNCHANGED unit_vars
    /\ UNCHANGED <<variant, MCP_SERVERS, stdio_sessions, http_clients,
                   sessions, tools, tool_transport_map,
                   exit_stack, connected, mgr_pc, conn_i, listed, enter_error,
                   exit_how>>

----------------------------------------------------------------------------
(* ChatService: texts, messages, the model-completion collaborator *)

Users == {"u1"}

\* Texts are sequences of tokens: "T" a word of prose, "ART" a block of
\* tool-call markup the model wrote into its content, "IND" the
\* MCP_USED_INDICATOR. Python's None is the one-token text NoText, "" is <<>>.
NoText == <<None>>
MCP_USED_INDICATOR == <<"IND">>
SORRY == <<"Sorry, something went wrong.">>
FAILED_REVIEW == <<"Failed to generate review.">>
\* f"Error during review: {str(e)}"
ERROR_DURING_REVIEW(e) == <<"Error during review: ", e>>
FINALIZE_NUDGE == <<"provide a complete answer now">>

\* Python truthiness of an Optional[str]
Truthy(text) == text # NoText /\ text # <<>>

\* _clean_tool_call_artifacts: the markup blocks are removed
CleanArtifacts(text) ==
    IF ~Truthy(text) THEN text ELSE SelectSeq(text, LAMBDA tok : tok # "ART")

\* response_text.replace(MCP_USED_INDICATOR, "").strip()
StripIndicator(text) == SelectSeq(text, LAMBDA tok : tok # "IND")

\* ESSENTIAL_TOOLS: the catalog names handed to the model
ESSENTIAL_TOOLS == {"t1"}

Message(role, content) ==
    [role |-> role, content |-> content, tool_calls |-> <<>>, tool_call_id |-> 0]

\* one requested call as chat_completion parses it; ids are per reply
ToolCall(id, name) == [id |-> id, name |-> name]

\* the name the model asks for: routed when the providers are connected,
\* unknown to the router when none is
RequestedNames == {"t1"}

CallSeqs(n) ==
    UNION {{[i \in 1..k |-> ToolCall(i, nm[i])] : nm \in [1..k -> RequestedNames]} : k \in 0..n}

\* the content of a reply: nothing, markup only, prose with markup
ReplyTexts == {NoText, <<"ART">>, <<"T", "ART">>}

\* the content that comes with requested calls: nothing, or prose with markup
CallReplyTexts == {NoText, <<"T", "ART">>}

\* str(e) of the exceptions a completion may raise: an HTTP failure of the
\* model API, a malformed body
Exceptions == {"HTTP 500", "KeyError: choices"}

RaiseOf(e) == [kind |-> "raise", text |-> NoText, calls |-> <<>>, exc |-> e]

Raise == RaiseOf("HTTP 500")

\* what OpenRouterClient.chat_completion may do: raise, or return
\* (response_text, tool_calls) whatever tools were offered
Replies ==
    {RaiseOf(e) : e \in Exceptions}
    \cup {[kind |-> "ok", text |-> t, calls |-> <<>>, exc |-> None] : t \in ReplyTexts}
    \cup {[kind |-> "ok", text |-> t, calls |-> c, exc |-> None] :
            t \in CallReplyTexts, c \in CallSeqs(MaxCalls) \ {<<>>}}

\* review_pr runs up to 15 iterations: its replies are drawn from few
\* shapes, and the two that request a call leave the same message list
ReviewReplies ==
    {RaiseOf(e) : e \in Exceptions} \cup
    {[kind |-> "ok", text |-> NoText, calls |-> <<>>, exc |-> None],
     [kind |-> "ok", text |-> <<"T", "ART">>, calls |-> <<>>, exc |-> None],
     [kind |-> "ok", text |-> NoText, calls |-> <<ToolCall(1, "t1")>>, exc |-> None],
     [kind |-> "ok", text |-> <<"ART">>, calls |-> <<ToolCall(1, "t1")>>, exc |-> None]}

\* how a routed provider answers a call made by the agent loop
AgentResponses == {"ok", "timeout"}
ReviewResponses == {"ok"}

\* OpenRouterClient.chat_completion: the request payload built from the
\* arguments (tools None and [] are both <<>>): the catalog is sent when it is
\* non-empty, the strategy only together with a catalog
Payload(iteration, kind, messages, tools_arg, tool_choice_arg) ==
    [iteration |-> iteration, kind |-> kind, n_messages |-> Len(messages),
     tools |-> tools_arg,
     tool_choice |-> IF tools_arg # <<>> /\ tool_choice_arg # None
                     THEN tool_choice_arg ELSE None]

NoRet == [text |-> NoText, count |-> 0, used |-> FALSE]

\* a user slot (one handler invocation) in which the handler has not started
Idle ==
    [fn |-> "none", pc |-> "idle",
     conversation_history |-> <<>>,
     iteration |-> 0, current_messages |-> <<>>, response_text |-> NoText,
     reply_text |-> NoText,  \* content of the latest completion, as returned
     tool_calls |-> <<>>, tool_results |-> <<>>, mcp_was_used |-> FALSE,
     total_tool_calls |-> 0,
     requests |-> <<>>,      \* payloads of the completions issued, in order
     dispatched |-> <<>>,    \* calls made through mcp_manager.call_tool
     raised |-> FALSE,       \* the handler's except branch ran
     error |-> None,         \* str(e) of the exception the latest completion raised
     ret |-> NoRet,          \* what _process_with_openrouter returned
     answer |-> NoRet]       \* what the handler returned to its caller

\* ChatService.__init__
AgentInit ==
    /\ histories = [u \in Users |-> <<>>]
    /\ openrouter_tools = <<>>
    /\ agent = [u \in Users |-> Idle]

----------------------------------------------------------------------------
(* ChatService.process_message / _process_with_openrouter *)

\* the iteration cap of _process_with_openrouter (config.MAX_TOOL_ITERATIONS)
MAX_TOOL_ITERATIONS == 3
MAX_CONVERSATION_HISTORY == 50

\* ChatService.initialize: the catalog filtered to ESSENTIAL_TOOLS, converted
Initialize(mcp_tools) ==
    LET filtered == SelectSeq(mcp_tools, LAMBDA d : d.name \in ESSENTIAL_TOOLS)
    IN [i \in 1..Len(filtered) |-> filtered[i].name]

\* variant of WithUserMessage whose history is never cleared
WithUserMessageNeverCleared(hist) == Append(hist, Message("user", <<"m">>))

\* ConversationManager.check_and_clear_if_full, then add_message(user)
WithUserMessage(hist) ==
    Append(IF Len(hist) >= MAX_CONVERSATION_HISTORY THEN <<>> ELSE hist,
           Message("user", <<"m">>))

\* process_message up to the loop: locals of _process_with_openrouter
ChatStart(l, hist) ==
    [Idle EXCEPT !.fn = "chat", !.pc = "loop",
                 !.conversation_history = hist,
                 !.current_messages = <<Message("system", <<"SYS">>)>> \o hist]

\* process_message after _process_with_openrouter returned l.ret
ProcessMessageReturn(l) ==
    [l EXCEPT !.pc = "returned",
              !.answer = [text |-> IF Truthy(l.ret.text) THEN l.ret.text ELSE SORRY,
                          count |-> l.ret.count, used |-> l.ret.used]]

\* variant of Stored that stores the answer as it is returned to the caller
StoredUnstripped(hist, l) ==
    IF l.pc = "returned" /\ l.fn = "chat" /\ Truthy(l.ret.text)
    THEN Append(hist, Message("assistant", l.ret.text))
    ELSE hist

\* the stored conversation after the handler whose locals are l has taken a
\* step: process_message stores the cleaned answer when there is one
Stored(hist, l) ==
    IF l.pc = "returned" /\ l.fn = "chat" /\ Truthy(l.ret.text)
    THEN Append(hist, Message("assistant", StripIndicator(l.ret.text)))
    ELSE hist

\* variant of ChatLoopEnd that tags every non-empty answer
ChatLoopEndAlwaysTagged(l) ==
    ProcessMessageReturn(
        [l EXCEPT !.ret = [text |-> IF Truthy(l.response_text)
                                    THEN l.response_text \o MCP_USED_INDICATOR
                                    ELSE l.response_text,
                           count |-> l.total_tool_calls,
                           used |-> l.mcp_was_used]])

\* _process_with_openrouter: leaving the loop (break, or the cap reached)
ChatLoopEnd(l) ==
    ProcessMessageReturn(
        [l EXCEPT !.ret = [text |-> IF Truthy(l.response_text) /\ l.mcp_was_used
                                    THEN l.response_text \o MCP_USED_INDICATOR
                                    ELSE l.response_text,
                           count |-> l.total_tool_calls,
                           used |-> l.mcp_was_used]])

\* variant of ChatAbort that hands back the text gathered so far
ChatAbortPartial(l) ==
    ProcessMessageReturn(
        [l EXCEPT !.raised = TRUE,
                  !.ret = [text |-> l.response_text, count |-> l.total_tool_calls,
                           used |-> l.mcp_was_used]])

\* _process_with_openrouter: except Exception: return None, 0, False
ChatAbort(l) ==
    ProcessMessageReturn([l EXCEPT !.raised = TRUE, !.ret = NoRet])

\* variant of ChatTools that offers the catalog on every iteration
ChatToolsNeverDisabled(it) == openrouter_tools

\* the arguments of the completion of iteration `it`
ChatTools(it) == IF it = MAX_TOOL_ITERATIONS THEN <<>> ELSE openrouter_tools

ChatToolChoice(it) ==
    IF it = MAX_TOOL_ITERATIONS THEN None
    ELSE IF openrouter_tools # <<>> THEN "auto" ELSE None

\* variant of ChatCompletionStep without the finalize request: a reply with
\* no calls ends the loop whatever its text
ChatCompletionStepNoNudge(l, reply) ==
    LET it == l.iteration + 1
        req == Payload(it, "loop", l.current_messages, ChatTools(it), ChatToolChoice(it))
        l1 == [l EXCEPT !.iteration = it, !.requests = Append(@, req),
                        !.reply_text = reply.text,
                        !.error = reply.exc]
        text == CleanArtifacts(reply.text)
    IN IF reply.kind = "raise" THEN ChatAbort(l1)
       ELSE IF reply.calls = <<>>
            THEN ChatLoopEnd([l1 EXCEPT !.response_text = text, !.tool_calls = <<>>])
            ELSE [l1 EXCEPT !.response_text = text, !.tool_calls = reply.calls,
                            !.tool_results = <<>>, !.mcp_was_used = TRUE,
                            !.total_tool_calls = @ + Len(reply.calls),
                            !.pc = "tools"]

\* one turn of the while loop up to the tool executions: the completion is
\* issued and `reply` comes back
ChatCompletionStep(l, reply) ==
    LET it == l.iteration + 1
        req == Payload(it, "loop", l.current_messages, ChatTools(it), ChatToolChoice(it))
        l1 == [l EXCEPT !.iteration = it, !.requests = Append(@, req),
                        !.reply_text = reply.text,
                        !.error = reply.exc]
        text == CleanArtifacts(reply.text)
    IN IF reply.kind = "raise" THEN ChatAbort(l1)
       ELSE IF reply.calls = <<>>
            THEN IF ~Truthy(text)
                 THEN [l1 EXCEPT !.response_text = text, !.tool_calls = <<>>,
                                 !.current_messages =
                                     Append(@, Message("user", FINALIZE_NUDGE)),
                                 !.pc = "finalize"]
                 ELSE ChatLoopEnd([l1 EXCEPT !.response_text = text,
                                             !.tool_calls = <<>>])
            ELSE [l1 EXCEPT !.response_text = text, !.tool_calls = reply.calls,
                            !.tool_results = <<>>, !.mcp_was_used = TRUE,
                            !.total_tool_calls = @ + Len(reply.calls),
                            !.pc = "tools"]

\* variant of ToolResult that labels every result with the first call's id
ToolResultFirstId(tc, status) ==
    [role |-> "tool",
     content |-> IF status = "ok" THEN <<"payload">> ELSE <<"error", status>>,
     tool_calls |-> <<>>, tool_call_id |-> 1]

\* the tool message for a call that ended with `status`
ToolResult(tc, status) ==
    [role |-> "tool",
     content |-> IF status = "ok" THEN <<"payload">> ELSE <<"error", status>>,
     tool_calls |-> <<>>, tool_call_id |-> tc.id]

AssistantCallMessage(l) ==
    [role |-> "assistant",
     content |-> IF Truthy(l.response_text) THEN l.response_text ELSE <<>>,
     tool_calls |-> l.tool_calls, tool_call_id |-> 0]

\* variant of ChatToolStep whose loop has no iteration cap (while True)
ChatToolStepUnbounded(l, status) ==
    LET k == Len(l.tool_results) + 1
        tc == l.tool_calls[k]
        l1 == [l EXCEPT !.tool_results = Append(@, ToolResult(tc, status)),
                        !.dispatched = Append(@, [iteration |-> l.iteration,
                                                  id |-> tc.id, name |-> tc.name,
                                                  status |-> status])]
        l2 == [l1 EXCEPT !.current_messages =
                             (@ \o <<AssistantCallMessage(l1)>>) \o l1.tool_results]
    IN IF k < Len(l.tool_calls) THEN l1 ELSE [l2 EXCEPT !.pc = "loop"]

\* the next requested call has been executed with outcome `status`; after
\* the last one the assistant message and the results are appended and the
\* while condition is tested
ChatToolStep(l, status) ==
    LET k == Len(l.tool_results) + 1
        tc == l.tool_calls[k]
        l1 == [l EXCEPT !.tool_results = Append(@, ToolResult(tc, status)),
                        !.dispatched = Append(@, [iteration |-> l.iteration,
                                                  id |-> tc.id, name |-> tc.name,
                                                  status |-> status])]
        l2 == [l1 EXCEPT !.current_messages =
                             (@ \o <<AssistantCallMessage(l1)>>) \o l1.tool_results]
    IN IF k < Len(l.tool_calls) THEN l1
       ELSE IF l2.iteration < MAX_TOOL_ITERATIONS THEN [l2 EXCEPT !.pc = "loop"]
       ELSE ChatLoopEnd(l2)

\* variant of ChatFinalizeStep that offers the catalog with the nudge
ChatFinalizeStepWithTools(l, reply) ==
    LET req == Payload(l.iteration, "finalize", l.current_messages,
                       openrouter_tools, "auto")
        l1 == [l EXCEPT !.requests = Append(@, req), !.reply_text = reply.text,
                        !.error = reply.exc]
    IN IF reply.kind = "raise" THEN ChatAbort(l1)
       ELSE ChatLoopEnd([l1 EXCEPT !.response_text = CleanArtifacts(reply.text)])

\* the forced final answer after an empty reply: one tool-free completion
ChatFinalizeStep(l, reply) ==
    LET req == Payload(l.iteration, "finalize", l.current_messages, <<>>, None)
        l1 == [l EXCEPT !.requests = Append(@, req), !.reply_text = reply.text,
                        !.error = reply.exc]
    IN IF reply.kind = "raise" THEN ChatAbort(l1)
       ELSE ChatLoopEnd([l1 EXCEPT !.response_text = CleanArtifacts(reply.text)])

\* variant of HistoriesWith for a ConversationManager that keeps one list
\* for all users
HistoriesWithShared(hs, u, hist) == [v \in DOMAIN hs |-> hist]

\* ConversationManager: self._histories[user_id] becomes hist; the lists of
\* the other users are not touched
HistoriesWith(hs, u, hist) == [hs EXCEPT ![u] = hist]

\* process_message(user_id, ...) is called
ProcessMessage(u) ==
    /\ agent[u].pc = "idle"
    /\ histories' = HistoriesWith(histories, u, WithUserMessage(histories[u]))
    /\ agent' = [agent EXCEPT ![u] = ChatStart(@, histories'[u])]
    /\ UNCHANGED <<openrouter_tools, wire, last_call>>
    /\ UNCHANGED mgr_static
    /\ UNCHANGED unit_vars

ChatIteration(u, reply) ==
    /\ agent[u].fn = "chat"
    /\ agent[u].pc = "loop"
    /\ agent' = [agent EXCEPT ![u] = ChatCompletionStep(@, reply)]
    /\ histories' = HistoriesWith(histories, u, Stored(histories[u], agent'[u]))
    /\ UNCHANGED <<openrouter_tools, wire, last_call>>
    /\ UNCHANGED mgr_static
    /\ UNCHANGED unit_vars

ChatToolCall(u, resp) ==
    /\ agent[u].fn = "chat"
    /\ agent[u].pc = "tools"
    /\ LET tc == agent[u].tool_calls[Len(agent[u].tool_results) + 1]
           status == ServerCallStatus(tc.name, resp)
       IN /\ last_call' = CallRecord(tc.name, status)
          /\ wire' = Sent(wire, last_call')
          /\ agent' = [agent EXCEPT ![u] = ChatToolStep(@, status)]
    /\ histories' = HistoriesWith(histories, u, Stored(histories[u], agent'[u]))
    /\ UNCHANGED openrouter_tools
    /\ UNCHANGED mgr_static
    /\ UNCHANGED unit_vars

ChatFinalize(u, reply) ==
    /\ agent[u].fn = "chat"
    /\ agent[u].pc = "finalize"
    /\ agent' = [agent EXCEPT ![u] = ChatFinalizeStep(@, reply)]
    /\ histories' = HistoriesWith(histories, u, Stored(histories[u], agent'[u]))
    /\ UNCHANGED <<openrouter_tools, wire, last_call>>
    /\ UNCHANGED mgr_static
    /\ UNCHANGED unit_vars

\* process_message invocations of one user in the runs with several turns
MaxTurns == 2

\* the handler of user u has returned to its caller: the next message of
\* this user is processed by a new invocation
ProcessMessageDone(u) ==
    /\ agent[u].fn = "chat"
    /\ agent[u].pc = "returned"
    /\ turns < MaxTurns
    /\ turns' = turns + 1
    /\ agent' = [agent EXCEPT ![u] = Idle]
    /\ UNCHANGED <<histories, openrouter_tools, wire, last_call>>
    /\ UNCHANGED mgr_static
    /\ UNCHANGED <<http, norm, life, sse>>

\* a history of n messages left by earlier turns: a first turn that stored
\* no answer when n is odd, then turns that stored their answer
StoredHistory(n) ==
    [i \in 1..n |-> IF (n - i) % 2 = 1 THEN Message("user", <<"m">>)
                    ELSE IF i = 1 /\ n % 2 = 1 THEN Message("user", <<"m">>)
                    ELSE Message("assistant", <<"T">>)]

----------------------------------------------------------------------------
(* ChatService.review_pr *)

\* max_iterations of review_pr
REVIEW_MAX_ITERATIONS == 15

\* review_pr up to the loop: messages = [system_prompt, user_prompt]
ReviewStart(l) ==
    [Idle EXCEPT !.fn = "review", !.pc = "loop",
                 !.current_messages = <<Message("system", <<"SYS">>),
                                        Message("user", <<"Review PR">>)>>]

\* return response_text or "Failed to generate review.", total_tool_calls
ReviewLoopEnd(l) ==
    [l EXCEPT !.pc = "returned",
              !.answer = [text |-> IF Truthy(l.response_text) THEN l.response_text
                                   ELSE FAILED_REVIEW,
                          count |-> l.total_tool_calls, used |-> FALSE]]

\* except Exception as e: return f"Error during review: {e}", total_tool_calls
ReviewAbort(l) ==
    [l EXCEPT !.pc = "returned", !.raised = TRUE,
              !.answer = [text |-> ERROR_DURING_REVIEW(l.error),
                          count |-> l.total_tool_calls, used |-> FALSE]]

ReviewTools(it) == IF it = REVIEW_MAX_ITERATIONS THEN <<>> ELSE openrouter_tools

ReviewToolChoice(it) ==
    IF it = 1 THEN "required"
    ELSE IF it = REVIEW_MAX_ITERATIONS THEN None
    ELSE "auto"

ReviewCompletionStep(l, reply) ==
    LET it == l.iteration + 1
        req == Payload(it, "loop", l.current_messages, ReviewTools(it),
                       ReviewToolChoice(it))
        l1 == [l EXCEPT !.iteration = it, !.requests = Append(@, req),
                        !.reply_text = reply.text,
                        !.error = reply.exc]
        text == CleanArtifacts(reply.text)
    IN IF reply.kind = "raise" THEN ReviewAbort(l1)
       ELSE IF reply.calls = <<>>
            THEN IF ~Truthy(text)
                 THEN [l1 EXCEPT !.response_text = text, !.tool_calls = <<>>,
                                 !.current_messages =
                                     Append(@, Message("user", FINALIZE_NUDGE)),
                                 !.pc = "finalize"]
                 ELSE ReviewLoopEnd([l1 EXCEPT !.response_text = text,
                                               !.tool_calls = <<>>])
            ELSE [l1 EXCEPT !.response_text = text, !.tool_calls = reply.calls,
                            !.tool_results = <<>>,
                            !.total_tool_calls = @ + Len(reply.calls),
                            !.pc = "tools"]

ReviewToolStep(l, status) ==
    LET k == Len(l.tool_results) + 1
        tc == l.tool_calls[k]
        l1 == [l EXCEPT !.tool_results = Append(@, ToolResult(tc, status)),
                        !.dispatched = Append(@, [iteration |-> l.iteration,
                                                  id |-> tc.id, name |-> tc.name,
                                                  status |-> status])]
        l2 == [l1 EXCEPT !.current_messages =
                             (@ \o <<AssistantCallMessage(l1)>>) \o l1.tool_results]
    IN IF k < Len(l.tool_calls) THEN l1
       ELSE IF l2.iteration < REVIEW_MAX_ITERATIONS THEN [l2 EXCEPT !.pc = "loop"]
       ELSE ReviewLoopEnd(l2)

ReviewFinalizeStep(l, reply) ==
    LET req == Payload(l.iteration, "finalize", l.current_messages, <<>>, None)
        l1 == [l EXCEPT !.requests = Append(@, req), !.reply_text = reply.text,
                        !.error = reply.exc]
    IN IF reply.kind = "raise" THEN ReviewAbort(l1)
       ELSE ReviewLoopEnd([l1 EXCEPT !.response_text = CleanArtifacts(reply.text)])

\* review_pr(pr_number) is called
ReviewPr(u) ==
    /\ agent[u].pc = "idle"
    /\ agent' = [agent EXCEPT ![u] = ReviewStart(@)]
    /\ UNCHANGED <<histories, openrouter_tools, wire, last_call>>
    /\ UNCHANGED mgr_static
    /\ UNCHANGED unit_vars

ReviewIteration(u, reply) ==
    /\ agent[u].fn = "review"
    /\ agent[u].pc = "loop"
    /\ agent' = [agent EXCEPT ![u] = ReviewCompletionStep(@, reply)]
    /\ UNCHANGED <<histories, openrouter_tools, wire, last_call>>
    /\ UNCHANGED mgr_static
    /\ UNCHANGED unit_vars

ReviewToolCall(u, resp) ==
    /\ agent[u].fn = "review"
    /\ agent[u].pc = "tools"
    /\ LET tc == agent[u].tool_calls[Len(agent[u].tool_results) + 1]
           status == ServerCallStatus(tc.name, resp)
       IN /\ last_call' = CallRecord(tc.name, status)
          /\ wire' = Sent(wire, last_call')
          /\ agent' = [agent EXCEPT ![u] = ReviewToolStep(@, status)]
    /\ UNCHANGED <<histories, openrouter_tools>>
    /\ UNCHANGED mgr_static
    /\ UNCHANGED unit_vars

ReviewFinalize(u, reply) ==
    /\ agent[u].fn = "review"
    /\ agent[u].pc = "finalize"
    /\ agent' = [agent EXCEPT ![u] = ReviewFinalizeStep(@, reply)]
    /\ UNCHANGED <<histories, openrouter_tools, wire, last_call>>
    /\ UNCHANGED mgr_static
    /\ UNCHANGED unit_vars

----------------------------------------------------------------------------
(* TelegramBot: handle_message / _process_with_openrouter (client) *)

\* max_iterations of TelegramBot._process_with_openrouter
BOT_MAX_ITERATIONS == 15

\* query_to_send of handle_message: the user's message as typed, or the
\* message augmented with retrieved context (it starts with "Context:")
BotQuery(rag) == IF rag THEN <<"Context:", "m">> ELSE <<"m">>

\* the copy of the history in which the last user message is replaced by
\* the augmented query
ModifiedHistory(conversation_history, user_message) ==
    LET users == {i \in 1..Len(conversation_history) :
                    conversation_history[i].role = "user"}
    IN IF users = {} THEN conversation_history
       ELSE LET last == CHOOSE i \in users : \A j \in users : j <= i
            IN [conversation_history EXCEPT ![last] = Message("user", user_message)]

\* _process_with_openrouter up to the loop: messages_with_system
BotStart(l, hist, user_message) ==
    LET is_rag_query == Head(user_message) = "Context:"
    IN [Idle EXCEPT !.fn = "bot", !.pc = "loop",
                    !.conversation_history = hist,
                    !.current_messages =
                        <<Message("system", <<"SYS">>)>> \o
                        (IF is_rag_query /\ hist # <<>>
                         THEN ModifiedHistory(hist, user_message) ELSE hist)]

\* handle_message after _process_with_openrouter returned l.ret: the reply
\* sent to the user is the returned text, or ERROR_MESSAGE
BotReturn(l) ==
    [l EXCEPT !.pc = "returned",
              !.answer = [text |-> IF Truthy(l.ret.text) THEN l.ret.text ELSE SORRY,
                          count |-> l.ret.count, used |-> l.ret.used]]

\* leaving the loop (break, or the while condition false): return response_text
BotLoopEnd(l) ==
    BotReturn([l EXCEPT !.ret = [text |-> IF Truthy(l.response_text) /\ l.mcp_was_used
                                          THEN l.response_text \o MCP_USED_INDICATOR
                                          ELSE l.response_text,
                                 count |-> l.total_tool_calls,
                                 used |-> l.mcp_was_used]])

\* except Exception: return None
BotAbort(l) == BotReturn([l EXCEPT !.raised = TRUE, !.ret = NoRet])

\* one turn of the while loop up to the tool executions: the catalog and the
\* strategy are the same at every iteration
BotCompletionStep(l, reply) ==
    LET it == l.iteration + 1
        req == Payload(it, "loop", l.current_messages, openrouter_tools,
                       IF openrouter_tools # <<>> THEN "auto" ELSE None)
        l1 == [l EXCEPT !.iteration = it, !.requests = Append(@, req),
                        !.reply_text = reply.text, !.error = reply.exc]
    IN IF reply.kind = "raise" THEN BotAbort(l1)
       ELSE IF reply.calls = <<>>
            THEN BotLoopEnd([l1 EXCEPT !.response_text = reply.text,
                                       !.tool_calls = <<>>])
            ELSE [l1 EXCEPT !.response_text = reply.text,
                            !.tool_calls = reply.calls,
                            !.tool_results = <<>>, !.mcp_was_used = TRUE,
                            !.total_tool_calls = @ + Len(reply.calls),
                            !.pc = "tools"]

\* conversation_with_tools: the stored history as it was at the start, the
\* assistant and tool messages of the list just sent, the reply's text when
\* there is one, the results
ConversationWithTools(l) ==
    ((l.conversation_history
        \o SelectSeq(Tail(l.current_messages),
                     LAMBDA msg : msg.role \in {"assistant", "tool"}))
        \o (IF Truthy(l.response_text)
            THEN <<Message("assistant", l.response_text)>> ELSE <<>>))
        \o l.tool_results

\* the next requested call has been executed with outcome `status`; after
\* the last one the next list is built and the while condition is tested
BotToolStep(l, status) ==
    LET k == Len(l.tool_results) + 1
        tc == l.tool_calls[k]
        l1 == [l EXCEPT !.tool_results = Append(@, ToolResult(tc, status)),
                        !.dispatched = Append(@, [iteration |-> l.iteration,
                                                  id |-> tc.id, name |-> tc.name,
                                                  status |-> status])]
        l2 == [l1 EXCEPT !.current_messages =
                             <<Message("system", <<"SYS">>)>> \o ConversationWithTools(l1)]
    IN IF k < Len(l.tool_calls) THEN l1
       ELSE IF l2.iteration < BOT_MAX_ITERATIONS THEN [l2 EXCEPT !.pc = "loop"]
       ELSE BotLoopEnd(l2)

\* handle_message stores the returned text, without the indicator
BotStored(hist, l) ==
    IF l.pc = "returned" /\ l.fn = "bot" /\ Truthy(l.ret.text)
    THEN Append(hist, Message("assistant", StripIndicator(l.ret.text)))
    ELSE hist

\* handle_message(update) for a text message of user u
BotHandleMessage(u, rag) ==
    /\ agent[u].pc = "idle"
    /\ histories' = HistoriesWith(histories, u, WithUserMessage(histories[u]))
    /\ agent' = [agent EXCEPT ![u] = BotStart(@, histories'[u], BotQuery(rag))]
    /\ UNCHANGED <<openrouter_tools, wire, last_call>>
    /\ UNCHANGED mgr_static
    /\ UNCHANGED unit_vars

BotIteration(u, reply) ==
    /\ agent[u].fn = "bot"
    /\ agent[u].pc = "loop"
    /\ agent' = [agent EXCEPT ![u] = BotCompletionStep(@, reply)]
    /\ histories' = HistoriesWith(histories, u, BotStored(histories[u], agent'[u]))
    /\ UNCHANGED <<openrouter_tools, wire, last_call>>
    /\ UNCHANGED mgr_static
    /\ UNCHANGED unit_vars

BotToolCall(u, resp) ==
    /\ agent[u].fn = "bot"
    /\ agent[u].pc = "tools"
    /\ LET tc == agent[u].tool_calls[Len(agent[u].tool_results) + 1]
           status == ClientCallStatus(tc.name, resp)
       IN /\ last_call' = CallRecord(tc.name, status)
          /\ wire' = Sent(wire, last_call')
          /\ agent' = [agent EXCEPT ![u] = BotToolStep(@, status)]
    /\ histories' = HistoriesWith(histories, u, BotStored(histories[u], agent'[u]))
    /\ UNCHANGED openrouter_tools
    /\ UNCHANGED mgr_static
    /\ UNCHANGED unit_vars

----------------------------------------------------------------------------
(* MCPHttpClient: one adapter object, and MCPManager._call_http_tool on it *)

\* request ids handed out by one adapter in the runs explored
MaxRequestId == 3
\* calls of close() on one adapter in the runs explored
MaxCloses == 2

SessionIds == {"s1", "s2"}

\* MCPHttpClient.__init__
HttpNew ==
    [client |-> FALSE,        \* self._client is not None
     initialized |-> FALSE,   \* self._initialized
     session_id |-> None,     \* self._session_id
     request_id |-> 0,        \* self._request_id
     posts |-> <<>>,          \* requests posted over the current httpx client
     closes |-> 0,            \* calls of close() so far
     aclosed |-> 0,           \* httpx clients closed with aclose() so far
     last |-> [op |-> None, status |-> None]]

\* what self._client.post(...) does: "json_result" and "json_error" are 200
\* with a JSON body holding result or error, "sse_result" and "sse_error" are
\* 200 event streams whose data frame holds result or error, "accepted" is
\* 202, "http_error" a status >= 400, "net_error" an exception of the
\* transport, "timeout" the cancellation by the caller's deadline; `header`
\* is the mcp-session-id header of the response, if any
Resp(kind, header) == [kind |-> kind, header |-> header]

NoResponseKinds == {"net_error", "timeout"}
RaisingKinds == {"http_error", "json_error"} \cup NoResponseKinds

InitResponses ==
    {Resp(k, hd) : k \in {"json_result", "sse_error", "http_error"}, hd \in {None, "s1"}}

NotifResponses ==
    {Resp(k, hd) : k \in {"accepted", "http_error"}, hd \in {None, "s2"}}

ListResponses == {Resp("json_result", None), Resp("http_error", None)}

CallResponses ==
    {Resp("json_result", None), Resp("json_result", "s2"), Resp("sse_error", None),
     Resp("http_error", None), Resp("net_error", None), Resp("timeout", None)}

\* the request as posted and what came back
Post(h, method, id, resp) ==
    [method |-> method, id |-> id, session |-> h.session_id,
     resp |-> resp.kind, rheader |-> resp.header]

\* variant of SendRequest that posts the request a second time when the
\* status is >= 400
SendRequestRetrying(h, method, is_notification, resp) ==
    IF ~h.client THEN [h |-> h, outcome |-> "not_connected"]
    ELSE LET id == IF is_notification THEN 0 ELSE h.request_id + 1
             h1 == [h EXCEPT !.request_id = IF is_notification THEN @ ELSE id,
                             !.posts = IF resp.kind = "http_error"
                                       THEN Append(Append(@, Post(h, method, id, resp)),
                                                   Post(h, method, id, resp))
                                       ELSE Append(@, Post(h, method, id, resp))]
             h2 == IF resp.kind \in NoResponseKinds \/ resp.header = None THEN h1
                   ELSE [h1 EXCEPT !.session_id = resp.header]
         IN [h |-> h2,
             outcome |-> CASE resp.kind \in RaisingKinds -> "raise"
                           [] resp.kind \in {"accepted", "sse_error"} -> "none"
                           [] OTHER -> "value"]

\* variant of SendRequest that takes a status >= 400 for a response without
\* a body and returns None
SendRequestLenient(h, method, is_notification, resp) ==
    IF ~h.client THEN [h |-> h, outcome |-> "not_connected"]
    ELSE LET id == IF is_notification THEN 0 ELSE h.request_id + 1
             h1 == [h EXCEPT !.request_id = IF is_notification THEN @ ELSE id,
                             !.posts = Append(@, Post(h, method, id, resp))]
             h2 == IF resp.kind \in NoResponseKinds \/ resp.header = None THEN h1
                   ELSE [h1 EXCEPT !.session_id = resp.header]
         IN [h |-> h2,
             outcome |-> CASE resp.kind \in RaisingKinds \ {"http_error"} -> "raise"
                           [] resp.kind \in {"accepted", "sse_error", "http_error"} -> "none"
                           [] OTHER -> "value"]

\* MCPHttpClient._send_request: one post; a session header of the response
\* is stored before the status is looked at; 202 returns None; >= 400 and a
\* JSON error body raise; _parse_sse_response returns the result of a result
\* frame and None when the stream holds no result frame
SendRequest(h, method, is_notification, resp) ==
    IF ~h.client THEN [h |-> h, outcome |-> "not_connected"]
    ELSE LET id == IF is_notification THEN 0 ELSE h.request_id + 1
             h1 == [h EXCEPT !.request_id = IF is_notification THEN @ ELSE id,
                             !.posts = Append(@, Post(h, method, id, resp))]
             h2 == IF resp.kind \in NoResponseKinds \/ resp.header = None THEN h1
                   ELSE [h1 EXCEPT !.session_id = resp.header]
         IN [h |-> h2,
             outcome |-> CASE resp.kind \in RaisingKinds -> "raise"
                           [] resp.kind \in {"accepted", "sse_error"} -> "none"
                           [] OTHER -> "value"]

Did(h, op, status) == [h EXCEPT !.last = [op |-> op, status |-> status]]

\* MCPHttpClient.connect
HttpConnectStep(h) == Did([h EXCEPT !.client = TRUE], "connect", "ok")

\* variant of HttpCloseStep without the test of self._client: aclose() is
\* called on whatever the field holds
HttpCloseStepUnguarded(h) ==
    IF h.client
    THEN Did([h EXCEPT !.client = FALSE, !.initialized = FALSE,
                       !.session_id = None, !.posts = <<>>,
                       !.closes = @ + 1, !.aclosed = @ + 1], "close", "ok")
    ELSE Did([h EXCEPT !.closes = @ + 1], "close", "error")

\* MCPHttpClient.close: with a client, aclose() it and reset the fields;
\* without one, nothing
HttpCloseStep(h) ==
    IF h.client
    THEN Did([h EXCEPT !.client = FALSE, !.initialized = FALSE,
                       !.session_id = None, !.posts = <<>>,
                       !.closes = @ + 1, !.aclosed = @ + 1], "close", "ok")
    ELSE Did([h EXCEPT !.closes = @ + 1], "close", "ok")

\* MCPHttpClient.initialize: the initialize request, then the initialized
\* notification, then self._initialized = True
HttpInitializeStep(h, r1, r2) ==
    IF ~h.client THEN Did(h, "initialize", "not_connected")
    ELSE LET a == SendRequest(h, "initialize", FALSE, r1)
             b == SendRequest(a.h, "notifications/initialized", TRUE, r2)
         IN IF a.outcome = "raise" THEN Did(a.h, "initialize", "failed")
            ELSE IF b.outcome = "raise" THEN Did(b.h, "initialize", "failed")
            ELSE Did([b.h EXCEPT !.initialized = TRUE], "initialize", "ok")

\* MCPHttpClient.list_tools
HttpListToolsStep(h, resp) ==
    IF ~h.initialized THEN Did(h, "list_tools", "not_initialized")
    ELSE LET a == SendRequest(h, "tools/list", FALSE, resp)
         IN Did(a.h, "list_tools",
                CASE a.outcome = "raise" -> "error"
                  [] a.outcome = "none" -> "empty"
                  [] OTHER -> "ok")

\* variant of HttpCallToolStep without the test of self._initialized
HttpCallToolStepUnguarded(h, resp) ==
    LET a == SendRequest(h, "tools/call", FALSE, resp)
    IN Did(a.h, "call_tool",
           CASE a.outcome = "not_connected" -> "error"
             [] a.outcome = "raise" -> IF resp.kind = "timeout" THEN "timeout" ELSE "error"
             [] a.outcome = "none" -> "no_result"
             [] OTHER -> "ok")

\* asyncio.wait_for(client.call_tool(...), TOOL_CALL_TIMEOUT) in
\* _call_http_tool, and MCPHttpClient.call_tool
HttpCallToolStep(h, resp) ==
    IF ~h.initialized THEN Did(h, "call_tool", "not_initialized")
    ELSE LET a == SendRequest(h, "tools/call", FALSE, resp)
         IN Did(a.h, "call_tool",
                CASE a.outcome = "raise" -> IF resp.kind = "timeout" THEN "timeout" ELSE "error"
                  [] a.outcome = "none" -> "no_result"
                  [] OTHER -> "ok")

unit_rest == <<variant, MCP_SERVERS, adapter, stdio_sessions, http_clients,
               sessions, tools, tool_server_map, tool_transport_map, exit_stack,
               connected, mgr_pc, conn_i, listed, enter_error, exit_how, wire,
               last_call, n_calls, histories, openrouter_tools, agent,
               life, turns>>

HttpConnect ==
    /\ ~http.client
    /\ http' = HttpConnectStep(http)
    /\ UNCHANGED <<norm, sse, unit_rest>>

HttpInitialize(r1, r2) ==
    /\ ~http.initialized
    /\ http.request_id < MaxRequestId
    /\ http' = HttpInitializeStep(http, r1, r2)
    /\ UNCHANGED <<norm, sse, unit_rest>>

HttpListTools(resp) ==
    /\ http.request_id < MaxRequestId
    /\ http' = HttpListToolsStep(http, resp)
    /\ UNCHANGED <<norm, sse, unit_rest>>

CallHttpTool(resp) ==
    /\ http.request_id < MaxRequestId
    /\ http' = HttpCallToolStep(http, resp)
    /\ UNCHANGED <<norm, sse, unit_rest>>

HttpClose ==
    /\ http.closes < MaxCloses
    /\ http' = HttpCloseStep(http)
    /\ UNCHANGED <<norm, sse, unit_rest>>

----------------------------------------------------------------------------
(* MCPHttpClient._send_request under concurrent callers *)

\* requests one adapter posts in the runs with concurrent callers
MaxPosts == 3

\* the JSON-RPC methods the adapter sends
Methods == {"initialize", "notifications/initialized", "tools/list", "tools/call"}

\* a request posted and not answered yet
Pending == Resp("pending", None)

\* variant of PostRequest in which a notification takes an id from the
\* counter without sending it
PostRequestCountsNotifications(h, method, is_notification) ==
    LET id == IF is_notification THEN 0 ELSE h.request_id + 1
    IN [h EXCEPT !.request_id = @ + 1,
                 !.posts = Append(@, Post(h, method, id, Pending))]

\* _send_request up to its await: the request is built, the id is taken
\* with _next_id() unless it is a notification, the headers are read and
\* the POST is started; no await separates these steps
PostRequest(h, method, is_notification) ==
    LET id == IF is_notification THEN 0 ELSE h.request_id + 1
    IN [h EXCEPT !.request_id = IF is_notification THEN @ ELSE id,
                 !.posts = Append(@, Post(h, method, id, Pending))]

\* _send_request after its await: the response to the i-th request posted
\* has arrived; its session header is stored
ReceiveResponse(h, i, resp) ==
    LET h1 == [h EXCEPT !.posts[i].resp = resp.kind,
                        !.posts[i].rheader = resp.header]
    IN IF resp.kind \in NoResponseKinds \/ resp.header = None THEN h1
       ELSE [h1 EXCEPT !.session_id = resp.header]

\* the answers a request may get while others are in flight
CallerResponses ==
    {Resp("json_result", None), Resp("json_result", "s1"),
     Resp("http_error", None), Resp("net_error", None)}

\* a caller enters _send_request(method) and runs it up to the await
CallerPosts(method) ==
    /\ http.client
    /\ Len(http.posts) < MaxPosts
    /\ http' = PostRequest(http, method, method = "notifications/initialized")
    /\ UNCHANGED <<norm, sse, unit_rest>>

\* the await of the i-th request posted returns, in any order
CallerReceives(i, resp) ==
    /\ i \in 1..Len(http.posts)
    /\ http.posts[i].resp = Pending.kind
    /\ http' = ReceiveResponse(http, i, resp)
    /\ UNCHANGED <<norm, sse, unit_rest>>

----------------------------------------------------------------------------
(* Result normalization *)

\* parts of a content array in the results explored
MaxParts == 3

\* a text part, a resource with inline text, a resource without, an image
ContentParts ==
    {[type |-> "text", text |-> "A"], [type |-> "text", text |-> "B"],
     [type |-> "resource", text |-> "R"], [type |-> "resource", text |-> None],
     [type |-> "image", text |-> None]}

Contents == UNION {[1..k -> ContentParts] : k \in 0..MaxParts}

TextsOf(parts) == [i \in 1..Len(parts) |-> parts[i].text]

RECURSIVE JoinLines(_)
JoinLines(texts) ==
    IF Len(texts) <= 1 THEN texts
    ELSE <<Head(texts), "\n">> \o JoinLines(Tail(texts))

\* _call_stdio_tool / client call_tool: the texts of the items that have a
\* text attribute (the text parts), appended one to another; an empty
\* content gives "No result"
StdioNormalize(content) ==
    IF content = <<>> THEN <<"No result">>
    ELSE TextsOf(SelectSeq(content, LAMBDA part : part.type = "text"))

\* MCPHttpClient.call_tool: the texts of the text parts and of the resources
\* holding a text, joined with newlines; json.dumps(result) when there is none
HttpNormalize(content) ==
    LET text_parts == TextsOf(SelectSeq(content, LAMBDA part :
                                 \/ part.type = "text"
                                 \/ part.type = "resource" /\ part.text # None))
    IN IF text_parts # <<>> THEN JoinLines(text_parts) ELSE <<"json.dumps(result)">>

NormIdle == [transport |-> None, content |-> <<>>, payload |-> NoText]

\* a provider has answered a call with `content`; the payload is computed
Normalize ==
    /\ norm.transport # None
    /\ norm.payload = NoText
    /\ norm' = [norm EXCEPT !.payload = IF norm.transport = "http"
                                        THEN HttpNormalize(norm.content)
                                        ELSE StdioNormalize(norm.content)]
    /\ UNCHANGED <<http, sse, unit_rest>>

----------------------------------------------------------------------------
(* HTTP response bodies: plain JSON and event streams *)

\* data: frames of one event stream in the bodies explored
MaxFrames == 3

\* no body is being read
SseIdle == [framing |-> None, frames |-> <<>>, outcome |-> None, value |-> None]

\* one JSON-RPC message of a body: an object with "result", an object with
\* "error", text that is no JSON, or an array (batch) of objects; `val` is
\* the result of an object, `items` the objects of a batch
ResultFrame(v) == [kind |-> "result", val |-> v, items |-> <<>>]
ErrorFrame == [kind |-> "error", val |-> None, items |-> <<>>]
MalformedFrame == [kind |-> "malformed", val |-> None, items |-> <<>>]
BatchFrame(items) == [kind |-> "batch", val |-> None, items |-> items]

ResultValues == {"r1", "r2"}

Frames ==
    {ResultFrame(v) : v \in ResultValues}
    \cup {ErrorFrame, MalformedFrame,
          BatchFrame(<<ResultFrame("r1"), ResultFrame("r2")>>),
          BatchFrame(<<ErrorFrame, ResultFrame("r2")>>)}

\* the data: lines of an event stream, in order
SseStreams == UNION {[1..k -> Frames] : k \in 0..MaxFrames}

\* a plain JSON body is one message
JsonBodies == {<<f>> : f \in Frames}

\* the items of a batch that hold a result, in order
ResultItems(frame) == SelectSeq(frame.items, LAMBDA it : it.kind = "result")

\* _parse_sse_response: result = None; every data: line is parsed in turn:
\* an object with "result" assigns its result; a list assigns the result of
\* its first item with "result" (break); a line that is no JSON is logged;
\* anything else is passed over
RECURSIVE ParseSse(_, _)
ParseSse(frames, result) ==
    IF frames = <<>> THEN result
    ELSE LET f == Head(frames)
             next == CASE f.kind = "result" -> f.val
                       [] f.kind = "batch" /\ ResultItems(f) # <<>> -> ResultItems(f)[1].val
                       [] OTHER -> result
         IN ParseSse(Tail(frames), next)

\* _send_request from the content type on, for a 200 response: an event
\* stream is parsed by _parse_sse_response; a JSON body is decoded
\* (response.json() raises on text that is no JSON), an "error" key raises
\* RuntimeError, result.get("result") is returned (a list has no get)
ReadResponse(framing, frames) ==
    IF framing = "sse"
    THEN LET v == ParseSse(frames, None)
         IN [outcome |-> IF v = None THEN "none" ELSE "value", value |-> v]
    ELSE LET f == frames[1]
         IN IF f.kind = "result" THEN [outcome |-> "value", value |-> f.val]
            ELSE [outcome |-> "raise", value |-> None]

\* MCPHttpClient.call_tool on what _send_request returned or raised: a
\* falsy result becomes the payload "No result"
CallToolOutcome(r) ==
    CASE r.outcome = "raise" -> [outcome |-> "error", value |-> None]
      [] r.outcome = "none" -> [outcome |-> "ok", value |-> "No result"]
      [] OTHER -> [outcome |-> "ok", value |-> r.value]

\* the 200 response to a tools/call is read and call_tool returns or raises
ReadBody ==
    /\ sse.framing # None
    /\ sse.outcome = None
    /\ LET c == CallToolOutcome(ReadResponse(sse.framing, sse.frames))
       IN sse' = [sse EXCEPT !.outcome = c.outcome, !.value = c.value]
    /\ UNCHANGED <<http, norm, unit_rest>>

----------------------------------------------------------------------------
(* The server's lifespan: startup *)

\* no lifespan is running
LifeOff == [pc |-> "off", chat_service |-> None, installed |-> FALSE,
            error |-> None]

\* lifespan(): the MCPManager is created, connect().__aenter__() is awaited
\* under asyncio.wait_for(..., 30.0)
LifeEntering == [LifeOff EXCEPT !.pc = "entering"]

\* ChatService.initialize: mcp_tools = self.mcp_manager.get_tools() is an
\* attribute access on the manager the service was built with
ChatServiceInitialize(mcp_manager, catalog) ==
    IF mcp_manager = None
    THEN [raised |-> "AttributeError", tools |-> <<>>]
    ELSE [raised |-> None, tools |-> Initialize(catalog)]

\* a ChatService was built with `mcp_manager` and initialize() is called; on
\* return set_chat_service installs it and startup goes on to the yield; an
\* exception leaves the handler it was raised in, reaches the outer
\* `except Exception: raise` and aborts the startup
LifeInstall(lf, mcp_manager, catalog) ==
    LET i == ChatServiceInitialize(mcp_manager, catalog)
        kind == IF mcp_manager = None THEN "without_mcp" ELSE "with_mcp"
    IN IF i.raised # None
       THEN [lf EXCEPT !.pc = "aborted", !.chat_service = kind, !.error = i.raised]
       ELSE [lf EXCEPT !.pc = "serving", !.chat_service = kind, !.installed = TRUE]

\* __aenter__ returned within the limit: ChatService(mcp_manager)
LifespanConnected ==
    /\ life.pc = "entering"
    /\ mgr_pc = "yielded"
    /\ life' = LifeInstall(life, "mcp_manager", tools)
    /\ openrouter_tools' = ChatServiceInitialize("mcp_manager", tools).tools
    /\ UNCHANGED <<histories, agent, wire, last_call, http, norm, sse, turns>>
    /\ UNCHANGED mgr_static

\* __aenter__ raised or ran into the limit: the handlers of TimeoutError and
\* of Exception both build ChatService(None)
LifespanFallback ==
    /\ life.pc = "entering"
    /\ mgr_pc = "exited"
    /\ enter_error # None
    /\ life' = LifeInstall(life, None, <<>>)
    /\ openrouter_tools' = ChatServiceInitialize(None, <<>>).tools
    /\ UNCHANGED <<histories, agent, wire, last_call, http, norm, sse, turns>>
    /\ UNCHANGED mgr_static

----------------------------------------------------------------------------
(* Specifications *)

\* the manager alone: one MCPManager object, either class, under any
\* configuration; callers use call_tool outside the entering of the scope
InitMgr ==
    /\ MgrInit
    /\ AgentInit
    /\ http = HttpNew
    /\ norm = NormIdle
    /\ life = LifeOff
    /\ sse = SseIdle
    /\ turns = 0
    /\ \/ variant = "server" /\ MCP_SERVERS \in ServerConfigs
       \/ variant = "client" /\ MCP_SERVERS \in ClientConfigs

NextMgr ==
    \/ Connect
    \/ \E o \in ConnectOutcomes : ConnectServer(o)
    \/ \E pr \in {"connect", "handshake"} : CancelEntering(pr)
    \/ \E l \in [Providers -> ToolLists \cup {ListFailed}] : FetchTools(l)
    \/ \E how \in {"return", "raise"} : ScopeExit(how)
    \/ \E nm \in CallNames, r \in Responses : CallTool(nm, r)
    \/ ClientConnect
    \/ \E o \in ClientConnectOutcomes : ClientConnectServer(o)
    \/ \E i \in [Providers -> {"ok", "failed"}],
          l \in [Providers -> ToolLists \cup {ListFailed}] :
            ClientInitializeSessions(i, l)
    \/ \E how \in {"return", "raise"} : ClientScopeExit(how)
    \/ \E nm \in CallNames, r \in Responses : ClientCallTool(nm, r)

SpecMgr == InitMgr /\ [][NextMgr]_vars

\* the server manager inside its scope, as the lifespan leaves it: the stdio
\* providers of `keys` connected, each having listed listing[p]
ServerScope(keys, listing) ==
    LET f == FetchFrom(keys, "stdio", listing,
                       [tools |-> <<>>, server_map |-> EmptyMap,
                        transport_map |-> EmptyMap])
    IN /\ variant = "server"
       /\ MCP_SERVERS = [i \in 1..Len(ProviderOrder) |->
                           [name |-> ProviderOrder[i], transport |-> "stdio"]]
       /\ adapter = [p \in Providers |-> IF Has(keys, p) THEN "Ready" ELSE "Disconnected"]
       /\ stdio_sessions = keys
       /\ http_clients = <<>>
       /\ sessions = <<>>
       /\ tools = f.tools
       /\ tool_server_map = f.server_map
       /\ tool_transport_map = f.transport_map
       /\ exit_stack = keys
       /\ connected = TRUE
       /\ mgr_pc = "yielded"
       /\ conn_i = Len(ProviderOrder) + 1
       /\ listed = listing
       /\ enter_error = None
       /\ exit_how = None
       /\ wire = <<>>
       /\ last_call = NoCall
       /\ n_calls = 0

AllConnected ==
    ServerScope(ProviderOrder, [p \in Providers |-> IF p = "p1" THEN <<"t1">> ELSE <<"t2">>])

NoneConnected == ServerScope(<<>>, [p \in Providers |-> ListFailed])

\* the chat service inside the manager's scope, initialize() done
InitAgent ==
    /\ AllConnected \/ NoneConnected
    /\ http = HttpNew
    /\ norm = NormIdle
    /\ life = LifeOff
    /\ sse = SseIdle
    /\ turns = 0
    /\ histories = [u \in Users |-> <<>>]
    /\ openrouter_tools = Initialize(tools)
    /\ agent = [u \in Users |-> Idle]

NextAgent ==
    \/ \E u \in Users : ProcessMessage(u)
    \/ \E u \in Users, r \in Replies : ChatIteration(u, r)
    \/ \E u \in Users, r \in AgentResponses : ChatToolCall(u, r)
    \/ \E u \in Users, r \in Replies : ChatFinalize(u, r)
    \/ \E u \in Users : ReviewPr(u)
    \/ \E u \in Users, r \in ReviewReplies : ReviewIteration(u, r)
    \/ \E u \in Users, r \in ReviewResponses : ReviewToolCall(u, r)
    \/ \E u \in Users, r \in ReviewReplies : ReviewFinalize(u, r)

SpecAgent == InitAgent /\ [][NextAgent]_vars

\* one MCPHttpClient, used in any order by its owner
InitHttp ==
    /\ MgrInit
    /\ AgentInit
    /\ variant = "server"
    /\ MCP_SERVERS = [i \in 1..Len(ProviderOrder) |->
                        [name |-> ProviderOrder[i], transport |-> "http"]]
    /\ http = HttpNew
    /\ norm = NormIdle
    /\ life = LifeOff
    /\ sse = SseIdle
    /\ turns = 0

NextHttp ==
    \/ HttpConnect
    \/ \E r1 \in InitResponses, r2 \in NotifResponses : HttpInitialize(r1, r2)
    \/ \E r \in ListResponses : HttpListTools(r)
    \/ \E r \in CallResponses : CallHttpTool(r)
    \/ HttpClose

SpecHttp == InitHttp /\ [][NextHttp]_vars

\* one successful result of either transport, normalized
InitNorm ==
    /\ MgrInit
    /\ AgentInit
    /\ variant = "server"
    /\ MCP_SERVERS = [i \in 1..Len(ProviderOrder) |->
                        [name |-> ProviderOrder[i], transport |-> "stdio"]]
    /\ http = HttpNew
    /\ life = LifeOff
    /\ sse = SseIdle
    /\ turns = 0
    /\ norm \in {[transport |-> t, content |-> c, payload |-> NoText] :
                    t \in Transports, c \in Contents}

NextNorm == Normalize

SpecNorm == InitNorm /\ [][NextNorm]_vars

\* _process_with_openrouter alone, every awaited completion and tool call
\* returning or raising
NextChat ==
    \/ \E u \in Users : ProcessMessage(u)
    \/ \E u \in Users, r \in Replies : ChatIteration(u, r)
    \/ \E u \in Users, r \in AgentResponses : ChatToolCall(u, r)
    \/ \E u \in Users, r \in Replies : ChatFinalize(u, r)

FairSpecChat ==
    /\ InitAgent
    /\ [][NextChat]_vars
    /\ \A u \in Users :
         /\ WF_vars(\E r \in Replies : ChatIteration(u, r))
         /\ WF_vars(\E r \in AgentResponses : ChatToolCall(u, r))
         /\ WF_vars(\E r \in Replies : ChatFinalize(u, r))

\* process_message for two users at once: the handlers are coroutines of one
\* event loop, so every await of a completion or of a tool call is a point
\* where the other user's handler may run
ConcurrentUsers == {"u1", "u2"}

\* the replies explored with two users: a raise, an empty reply, an answer,
\* one requested call
ConcurrentReplies ==
    {Raise,
     [kind |-> "ok", text |-> NoText, calls |-> <<>>, exc |-> None],
     [kind |-> "ok", text |-> <<"T", "ART">>, calls |-> <<>>, exc |-> None],
     [kind |-> "ok", text |-> NoText, calls |-> <<ToolCall(1, "t1")>>, exc |-> None]}

\* how the routed provider answers a call made in these runs
ConcurrentResponses == {"ok"}

InitUsers ==
    /\ AllConnected
    /\ http = HttpNew
    /\ norm = NormIdle
    /\ life = LifeOff
    /\ sse = SseIdle
    /\ turns = 0
    /\ histories = [u \in ConcurrentUsers |-> <<>>]
    /\ openrouter_tools = Initialize(tools)
    /\ agent = [u \in ConcurrentUsers |-> Idle]

NextUsers ==
    \/ \E u \in ConcurrentUsers : ProcessMessage(u)
    \/ \E u \in ConcurrentUsers, r \in ConcurrentReplies : ChatIteration(u, r)
    \/ \E u \in ConcurrentUsers, r \in ConcurrentResponses : ChatToolCall(u, r)
    \/ \E u \in ConcurrentUsers, r \in ConcurrentReplies : ChatFinalize(u, r)

SpecUsers == InitUsers /\ [][NextUsers]_vars

\* the server's startup: lifespan() around the entering of connect()
InitLifespan ==
    /\ MgrInit
    /\ AgentInit
    /\ variant = "server"
    /\ MCP_SERVERS \in ServerConfigs
    /\ http = HttpNew
    /\ norm = NormIdle
    /\ sse = SseIdle
    /\ turns = 0
    /\ life = LifeEntering

NextLifespan ==
    \/ Connect
    \/ \E o \in ConnectOutcomes : ConnectServer(o)
    \/ \E pr \in {"connect", "handshake"} : CancelEntering(pr)
    \/ \E l \in [Providers -> ToolLists \cup {ListFailed}] : FetchTools(l)
    \/ LifespanConnected
    \/ LifespanFallback

SpecLifespan == InitLifespan /\ [][NextLifespan]_vars

\* one 200 response to a tools/call, in either framing
InitBody ==
    /\ MgrInit
    /\ AgentInit
    /\ variant = "server"
    /\ MCP_SERVERS = [i \in 1..Len(ProviderOrder) |->
                        [name |-> ProviderOrder[i], transport |-> "http"]]
    /\ http = HttpNew
    /\ norm = NormIdle
    /\ life = LifeOff
    /\ turns = 0
    /\ sse \in {[SseIdle EXCEPT !.framing = "sse", !.frames = fs] : fs \in SseStreams}
              \cup {[SseIdle EXCEPT !.framing = "json", !.frames = b] : b \in JsonBodies}

NextBody == ReadBody

SpecBody == InitBody /\ [][NextBody]_vars

\* the client manager inside its scope: both providers' sessions stored
\* and initialized, each having listed one tool
ClientScope ==
    LET listing == [p \in Providers |-> IF p = "p1" THEN <<"t1">> ELSE <<"t2">>]
        f == FetchFrom(ProviderOrder, "stdio", listing,
                       [tools |-> <<>>, server_map |-> EmptyMap,
                        transport_map |-> EmptyMap])
    IN /\ variant = "client"
       /\ MCP_SERVERS \in ClientConfigs
       /\ adapter = [p \in Providers |-> "Ready"]
       /\ stdio_sessions = <<>>
       /\ http_clients = <<>>
       /\ sessions = ProviderOrder
       /\ tools = f.tools
       /\ tool_server_map = f.server_map
       /\ tool_transport_map = EmptyMap
       /\ exit_stack = ProviderOrder
       /\ connected = FALSE
       /\ mgr_pc = "yielded"
       /\ conn_i = Len(ProviderOrder) + 1
       /\ listed = listing
       /\ enter_error = None
       /\ exit_how = None
       /\ wire = <<>>
       /\ last_call = NoCall
       /\ n_calls = 0

\* what a user's stored history may hold when a message arrives: nothing,
\* or an earlier exchange
BotHistories ==
    {<<>>, <<Message("user", <<"m0">>), Message("assistant", <<"T">>)>>}

\* the replies explored in the bot's loop: a raise, an empty reply, an
\* answer, one requested call with and without accompanying text
BotReplies ==
    {Raise,
     [kind |-> "ok", text |-> NoText, calls |-> <<>>, exc |-> None],
     [kind |-> "ok", text |-> <<"T">>, calls |-> <<>>, exc |-> None],
     [kind |-> "ok", text |-> NoText, calls |-> <<ToolCall(1, "t1")>>, exc |-> None],
     [kind |-> "ok", text |-> <<"T">>, calls |-> <<ToolCall(1, "t1")>>, exc |-> None]}

BotResponses == {"ok"}

\* the Telegram bot inside the client manager's scope, its catalog converted
InitBot ==
    /\ ClientScope
    /\ http = HttpNew
    /\ norm = NormIdle
    /\ life = LifeOff
    /\ sse = SseIdle
    /\ turns = 0
    /\ histories \in [Users -> BotHistories]
    /\ openrouter_tools = [i \in 1..Len(tools) |-> tools[i].name]
    /\ agent = [u \in Users |-> Idle]

NextBot ==
    \/ \E u \in Users, rag \in BOOLEAN : BotHandleMessage(u, rag)
    \/ \E u \in Users, r \in BotReplies : BotIteration(u, r)
    \/ \E u \in Users, r \in BotResponses : BotToolCall(u, r)

SpecBot == InitBot /\ [][NextBot]_vars

\* one connected MCPHttpClient whose _send_request is entered by several
\* callers before the earlier ones have been answered
InitCallers ==
    /\ MgrInit
    /\ AgentInit
    /\ variant = "server"
    /\ MCP_SERVERS = [i \in 1..Len(ProviderOrder) |->
                        [name |-> ProviderOrder[i], transport |-> "http"]]
    /\ http = HttpConnectStep(HttpNew)
    /\ norm = NormIdle
    /\ life = LifeOff
    /\ sse = SseIdle
    /\ turns = 0

NextCallers ==
    \/ \E m \in Methods : CallerPosts(m)
    \/ \E i \in 1..MaxPosts, r \in CallerResponses : CallerReceives(i, r)

SpecCallers == InitCallers /\ [][NextCallers]_vars

\* process_message for one user, turn after turn, from any history that
\* earlier turns can have left
InitTurns ==
    /\ AllConnected
    /\ http = HttpNew
    /\ norm = NormIdle
    /\ life = LifeOff
    /\ sse = SseIdle
    /\ turns = 0
    /\ histories \in [Users -> {StoredHistory(n) : n \in 0..(MAX_CONVERSATION_HISTORY + 1)}]
    /\ openrouter_tools = Initialize(tools)
    /\ agent = [u \in Users |-> Idle]

NextTurns ==
    \/ \E u \in Users : ProcessMessage(u)
    \/ \E u \in Users, r \in ConcurrentReplies : ChatIteration(u, r)
    \/ \E u \in Users, r \in ConcurrentResponses : ChatToolCall(u, r)
    \/ \E u \in Users, r \in ConcurrentReplies : ChatFinalize(u, r)
    \/ \E u \in Users : ProcessMessageDone(u)

SpecTurns == InitTurns /\ [][NextTurns]_vars

----------------------------------------------------------------------------
(* Properties of the agent loops *)

\* the iteration cap of the handler running in a slot
Cap(l) == IF l.fn = "review" THEN REVIEW_MAX_ITERATIONS ELSE MAX_TOOL_ITERATIONS

Running(l) == l.fn \in {"chat", "review"}

LastRequest(l) == l.requests[Len(l.requests)]

\* C1: in _process_with_openrouter and review_pr the iteration counter never
\* exceeds the cap, and one invocation issues at most cap + 1 completion
\* requests: at most cap loop completions and at most one finalize request.
C1_IterationBounded ==
    \A u \in Users :
        LET l == agent[u] IN
        Running(l) =>
            /\ l.iteration <= Cap(l)
            /\ Len(l.requests) <= Cap(l) + 1
            /\ Cardinality({i \in 1..Len(l.requests) : l.requests[i].kind = "loop"}) <= Cap(l)
            /\ Cardinality({i \in 1..Len(l.requests) : l.requests[i].kind = "finalize"}) <= 1

\* C1 witness: review_pr has issued its 15 loop completions and the finalize
\* request
C1_Witness ==
    \E u \in Users :
        /\ agent[u].fn = "review"
        /\ agent[u].iteration = REVIEW_MAX_ITERATIONS
        /\ Len(agent[u].requests) = REVIEW_MAX_ITERATIONS + 1

\* C2: the completion request issued when iteration == cap carries no tool
\* catalog and no tool-choice strategy, whatever happened on the earlier
\* iterations.
C2_LastIterationToolFree ==
    \A u \in Users :
        LET l == agent[u] IN
        Running(l) =>
            \A i \in 1..Len(l.requests) :
                l.requests[i].iteration = Cap(l) =>
                    /\ l.requests[i].tools = <<>>
                    /\ l.requests[i].tool_choice = None

\* C2 witness: cap = 3, the catalog was offered and calls were executed on
\* iterations 1 and 2, and the completion of iteration 3 has been issued
C2_Witness ==
    \E u \in Users :
        LET l == agent[u] IN
        /\ l.fn = "chat"
        /\ Len(l.requests) >= 3
        /\ l.requests[1].tools # <<>> /\ l.requests[2].tools # <<>>
        /\ l.requests[3].iteration = MAX_TOOL_ITERATIONS
        /\ \E i, j \in 1..Len(l.dispatched) :
              l.dispatched[i].iteration = 1 /\ l.dispatched[j].iteration = 2

\* _process_with_openrouter has returned a non-empty answer
ReturnedAnswer(l) == l.fn = "chat" /\ l.pc = "returned" /\ Truthy(l.ret.text)

EveryInvocationReturns ==
    \A u \in Users : (agent[u].pc \in {"loop", "tools", "finalize"}) ~> (agent[u].pc = "returned")

\* C3 as claimed: every invocation of _process_with_openrouter eventually
\* returns, and whenever it returns an answer the last completion request it
\* issued carried no catalog.
C3_Original ==
    /\ EveryInvocationReturns
    /\ [](\A u \in Users :
            ReturnedAnswer(agent[u]) => LastRequest(agent[u]).tools = <<>>)

\* C3 amended: every invocation of _process_with_openrouter eventually
\* returns, and whenever it returns an answer the last completion request it
\* issued either carried no catalog, or was the loop completion of an
\* iteration below the cap that the model answered with text and no calls.
C3_ReturnsAfterToolFreeOrPlainAnswer ==
    /\ EveryInvocationReturns
    /\ [](\A u \in Users :
            LET l == agent[u] IN
            ReturnedAnswer(l) =>
                \/ LastRequest(l).tools = <<>>
                \/ /\ LastRequest(l).kind = "loop"
                   /\ LastRequest(l).iteration < MAX_TOOL_ITERATIONS
                   /\ l.tool_calls = <<>>)

\* C3 witness: an answer returned at the cap, after tools on both earlier
\* iterations, from the tool-free completion
C3_Witness ==
    \E u \in Users :
        LET l == agent[u] IN
        /\ ReturnedAnswer(l)
        /\ l.iteration = MAX_TOOL_ITERATIONS
        /\ l.mcp_was_used
        /\ l.tool_calls = <<>>
        /\ LastRequest(l).tools = <<>>
        /\ l.requests[1].tools # <<>>

\* C4 as claimed: once iteration == cap no tool call is dispatched through
\* MCPManager.call_tool for the rest of the invocation, also when the reply
\* to the tool-free completion still requests calls; what is returned is the
\* text of that completion or of the one finalize request.
C4_NoDispatchAtCap ==
    \A u \in Users :
        LET l == agent[u] IN
        Running(l) =>
            /\ \A i \in 1..Len(l.dispatched) : l.dispatched[i].iteration < Cap(l)
            /\ (l.pc = "returned" /\ ~l.raised /\ l.iteration = Cap(l)) =>
                   l.tool_calls = <<>>

\* a failed call d of a returned invocation was fed back: its tool message,
\* with the error payload and the call's id, follows the assistant message
\* of its iteration in the conversation
FedBack(l, d) ==
    \E i, j \in 1..Len(l.current_messages) :
        /\ i < j
        /\ l.current_messages[i].role = "assistant"
        /\ \E k \in 1..Len(l.current_messages[i].tool_calls) :
              /\ l.current_messages[i].tool_calls[k].id = d.id
              /\ j = i + k
        /\ l.current_messages[j] = ToolResult([id |-> d.id, name |-> d.name], d.status)

\* C5 as claimed: a requested call whose execution fails never aborts the
\* turn: its error payload is appended as a tool message with the call's id,
\* the remaining calls of the iteration are executed, and the loop goes on
\* to the next model completion.
C5_FailedCallFedBack ==
    \A u \in Users :
        LET l == agent[u] IN
        (l.fn = "chat" /\ l.pc = "returned") =>
            \A n \in 1..Len(l.dispatched) :
                LET d == l.dispatched[n] IN
                d.status # "ok" =>
                    /\ FedBack(l, d)
                    /\ \E i \in 1..Len(l.requests) :
                          l.requests[i].iteration = d.iteration + 1

\* C6: when a model completion raises, on any iteration or on the finalize
\* request, process_message returns the failure answer only and stores no
\* assistant message: the stored conversation is the one the turn started
\* with (the user message included).
C6_CompletionFailureIsFatal ==
    \A u \in Users :
        LET l == agent[u] IN
        (l.fn = "chat" /\ l.raised) =>
            /\ l.pc = "returned"
            /\ l.answer = [text |-> SORRY, count |-> 0, used |-> FALSE]
            /\ histories[u] = l.conversation_history

\* C6 witness: the completion raised after tools had been executed and the
\* model had already written text
C6_Witness ==
    \E u \in Users :
        LET l == agent[u] IN
        /\ l.fn = "chat" /\ l.raised /\ l.pc = "returned"
        /\ Len(l.dispatched) > 0
        /\ Truthy(l.response_text)

----------------------------------------------------------------------------
(* Properties of the managers *)

Live(p) == adapter[p] \in {"Connected", "Ready"}

\* the provider holds a stored connection of the manager
Stored_(p) == Has(http_clients, p) \/ Has(stdio_sessions, p) \/ Has(sessions, p)

\* every tool listed by a provider that connected and initialized is in the
\* catalog and has a routing entry
CatalogComplete ==
    \A p \in Providers :
        adapter[p] = "Ready" =>
            /\ Stored_(p)
            /\ listed[p] # ListFailed =>
                 \A i \in 1..Len(listed[p]) :
                     /\ Get(tool_server_map, listed[p][i]) # None
                     /\ \E k \in 1..Len(tools) : tools[k] = Descriptor(p, listed[p][i])

\* C7 as claimed: whatever subset of the configured providers fails to
\* connect or handshake, in both managers the scope is still entered, and
\* the catalog and registry hold every tool listed by every provider that
\* did connect and initialize.
C7_Original ==
    /\ enter_error \in {None, "cancelled"}
    /\ mgr_pc = "yielded" => CatalogComplete

\* C7 amended: a provider that fails to connect or handshake removes only
\* its own tools: the catalog and registry hold every tool listed by every
\* provider that did connect and initialize. The server enters the scope
\* whatever subset fails; the client enters it unless no provider at all
\* connected, in which case connect() raises and the scope is not entered.
C7_PartialFailureIsolated ==
    /\ enter_error \in {None, "cancelled", "RuntimeError"}
    /\ enter_error = "RuntimeError" =>
          /\ variant = "client"
          /\ sessions = <<>>
          /\ mgr_pc = "exited"
          /\ \A p \in Providers : adapter[p] = "Disconnected"
    /\ mgr_pc = "yielded" => CatalogComplete

\* C7 witness: inside the scope, one provider failed and another, which
\* connected and initialized, has its tools in the catalog
C7_Witness ==
    /\ mgr_pc = "yielded"
    /\ \E p, q \in Providers :
          /\ p # q
          /\ ~Stored_(p) /\ adapter[p] # "Ready"
          /\ adapter[q] = "Ready" /\ listed[q] # ListFailed /\ listed[q] # <<>>
          /\ Get(tool_server_map, listed[q][1]) = q

\* C8 as claimed: once the scope of connect() has been left, by normal exit,
\* by an exception in the body, or by a failure or cancellation while
\* entering, every adapter connected during the scope is closed and the
\* manager holds no live connection.
C8_AllClosedAfterExit ==
    mgr_pc = "exited" =>
        /\ \A p \in Providers : ~Live(p)
        /\ \A p \in Providers : Stored_(p) => ~Live(p)

\* positions in MCP_SERVERS of the connected providers that listed tool t
Owners(t) ==
    {i \in 1..Len(MCP_SERVERS) :
        /\ Stored_(MCP_SERVERS[i].name)
        /\ listed[MCP_SERVERS[i].name] # ListFailed
        /\ Has(listed[MCP_SERVERS[i].name], t)}

LaterOwner(t) ==
    MCP_SERVERS[CHOOSE i \in Owners(t) : \A j \in Owners(t) : j <= i].name

\* C9 as claimed: when several connected providers list a tool of the same
\* name, after the registry is built the routing entry names the provider
\* that comes later in MCP_SERVERS, whatever the transports, and every call
\* of that name goes to that provider only.
C9_LaterConfiguredWins ==
    mgr_pc = "yielded" =>
        /\ \A t \in ToolNames :
              Owners(t) # {} => Get(tool_server_map, t) = LaterOwner(t)
        /\ \A i \in 1..Len(wire) :
              Owners(wire[i].name) # {} /\ wire[i].to = LaterOwner(wire[i].name)

\* C10 as claimed: call_tool(name, args) fails with an 'unknown tool' error
\* when name has no routing entry and with a 'provider unavailable' error
\* when the routed provider is not Ready; in both cases no request is sent
\* and registry and adapters stay as they were. (A client manager holding no
\* session reports any call as 'sessions not initialized'; that refusal is
\* accepted here for the unknown-tool case.)
C10_RouterRefuses ==
    [][n_calls' = n_calls + 1 =>
        LET rec == last_call'
            routed == Get(tool_server_map, rec.name)
        IN /\ routed = None =>
                 /\ rec.status \in {"unknown_tool", "sessions_not_initialized"}
                 /\ wire' = wire
           /\ (routed # None /\ adapter[routed] # "Ready") =>
                 /\ rec.status \in {"unavailable", "sessions_not_initialized"}
                 /\ wire' = wire
           /\ UNCHANGED <<tools, tool_server_map, tool_transport_map, adapter,
                          stdio_sessions, http_clients, sessions>>]_vars

----------------------------------------------------------------------------
(* Properties of the agent loop: finalize request, message order, marker *)

NudgeMessage == Message("user", FINALIZE_NUDGE)

FinalizeRequests(l) == {i \in 1..Len(l.requests) : l.requests[i].kind = "finalize"}

\* the part of the finalize rule that does not depend on what counts as text:
\* at most one finalize request, issued without catalog after the finalize
\* instruction was appended, and the loop has ended once it is answered; a
\* loop that ended on a reply without calls returns that reply's text
FinalizeOnceThenEnd(l) ==
    /\ Cardinality(FinalizeRequests(l)) <= 1
    /\ \A i \in FinalizeRequests(l) :
          /\ i = Len(l.requests)
          /\ l.requests[i].tools = <<>> /\ l.requests[i].tool_choice = None
          /\ l.pc = "returned"
          /\ l.current_messages[Len(l.current_messages)] = NudgeMessage
          /\ l.requests[i].n_messages = Len(l.current_messages)
    /\ l.pc = "finalize" =>
          /\ l.tool_calls = <<>>
          /\ FinalizeRequests(l) = {}
          /\ l.current_messages[Len(l.current_messages)] = NudgeMessage
    /\ (l.pc = "returned" /\ ~l.raised /\ l.tool_calls = <<>>
          /\ LastRequest(l).kind = "loop") =>
          /\ Truthy(CleanArtifacts(l.reply_text))
          /\ StripIndicator(l.answer.text) = CleanArtifacts(l.reply_text)

\* C15 as claimed: a completion with no calls and no text is followed by
\* exactly one more completion, without catalog, after the finalize
\* instruction is appended, and the loop then ends; a completion with no
\* calls but non-empty text is followed by no further completion and its
\* text is the answer.
C15_Original ==
    \A u \in Users :
        LET l == agent[u] IN
        Running(l) =>
            /\ FinalizeOnceThenEnd(l)
            /\ l.pc = "finalize" => ~Truthy(l.reply_text)

\* C15 amended: as claimed, with "text" read as the text left after
\* _clean_tool_call_artifacts: a completion with no calls whose content is
\* empty or consists of tool-call markup only is followed by the one
\* finalize request; a completion with no calls whose cleaned text is
\* non-empty ends the loop, and the cleaned text is the answer.
C15_FinalizeOnEmptyCleanedText ==
    \A u \in Users :
        LET l == agent[u] IN
        Running(l) =>
            /\ FinalizeOnceThenEnd(l)
            /\ l.pc = "finalize" => ~Truthy(CleanArtifacts(l.reply_text))

\* C15 witness: tools were used, then a reply without calls and without
\* text, then the finalize request, whose text is the answer
C15_Witness ==
    \E u \in Users :
        LET l == agent[u] IN
        /\ l.fn = "chat" /\ l.pc = "returned" /\ ~l.raised
        /\ Len(l.dispatched) > 0
        /\ LastRequest(l).kind = "finalize"
        /\ Truthy(l.response_text)
        /\ l.iteration < MAX_TOOL_ITERATIONS

\* the executed calls whose messages have been appended: all of them,
\* except those of an iteration still executing its calls
Appended(l) ==
    SelectSeq(l.dispatched, LAMBDA d : l.pc # "tools" \/ d.iteration < l.iteration)

ToolMessages(l) == SelectSeq(l.current_messages, LAMBDA m : m.role = "tool")

CallMessages(l) ==
    SelectSeq(l.current_messages, LAMBDA m : m.role = "assistant" /\ m.tool_calls # <<>>)

\* C16: after an iteration in which n >= 1 calls were requested the
\* conversation has grown by one assistant message listing the n calls and
\* then n tool messages, one per call in request order, each with the id of
\* the call whose result or error it holds.
C16_ResultsFollowCallsInOrder ==
    \A u \in Users :
        LET l == agent[u]
            cm == l.current_messages
        IN l.fn = "chat" =>
            /\ \A i \in 1..Len(cm) :
                  (cm[i].role = "assistant" /\ cm[i].tool_calls # <<>>) =>
                      /\ i + Len(cm[i].tool_calls) <= Len(cm)
                      /\ \A k \in 1..Len(cm[i].tool_calls) :
                            /\ cm[i + k].role = "tool"
                            /\ cm[i + k].tool_call_id = cm[i].tool_calls[k].id
            /\ Len(ToolMessages(l)) = Len(Appended(l))
            /\ \A j \in 1..Len(Appended(l)) :
                  LET d == Appended(l)[j] IN
                  /\ ToolMessages(l)[j].tool_call_id = d.id
                  /\ ToolMessages(l)[j].content =
                        IF d.status = "ok" THEN <<"payload">> ELSE <<"error", d.status>>
            /\ Len(CallMessages(l)) = Cardinality({Appended(l)[j].iteration : j \in 1..Len(Appended(l))})
            /\ Len(cm) = 1 + Len(l.conversation_history) + Len(CallMessages(l))
                           + Len(ToolMessages(l))
                           + Len(SelectSeq(cm, LAMBDA m : m = NudgeMessage))

\* C16 witness: one iteration requested two calls, the first failed and the
\* second succeeded, and their messages follow the assistant message
C16_Witness ==
    \E u \in Users :
        LET l == agent[u]
            cm == l.current_messages
        IN /\ l.fn = "chat" /\ l.pc # "tools"
           /\ \E i \in 1..Len(cm) :
                 /\ cm[i].role = "assistant" /\ Len(cm[i].tool_calls) = 2
                 /\ i + 2 <= Len(cm)
                 /\ cm[i + 1].tool_call_id = 1 /\ cm[i + 1].content # <<"payload">>
                 /\ cm[i + 2].tool_call_id = 2 /\ cm[i + 2].content = <<"payload">>

Tagged(text) == Has(text, "IND")

\* C17 as claimed: whenever _process_with_openrouter ends after executing at
\* least one tool call the answer carries MCP_USED_INDICATOR, and when it
\* ends without any tool call the answer does not carry it.
C17_Original ==
    \A u \in Users :
        LET l == agent[u] IN
        (l.fn = "chat" /\ l.pc = "returned") =>
            (Tagged(l.answer.text) <=> Len(l.dispatched) >= 1)

\* C17 amended: the answer carries MCP_USED_INDICATOR exactly when
\* _process_with_openrouter executed at least one tool call and ended
\* normally with a non-empty text; an invocation that ends with the failure
\* answer (a completion raised, or the final text was empty) or without any
\* tool call returns an answer without it.
C17_TaggedIffToolsAndText ==
    \A u \in Users :
        LET l == agent[u] IN
        (l.fn = "chat" /\ l.pc = "returned") =>
            /\ Tagged(l.answer.text) <=>
                  (Len(l.dispatched) >= 1 /\ ~l.raised /\ Truthy(l.response_text))
            /\ Tagged(l.answer.text) =>
                  l.answer.text = l.response_text \o MCP_USED_INDICATOR
            /\ ~Tagged(l.answer.text) =>
                  l.answer.text \in {l.response_text, SORRY}

\* C17 witness: a tagged answer after an executed call
C17_Witness ==
    \E u \in Users :
        LET l == agent[u] IN
        /\ l.fn = "chat" /\ l.pc = "returned"
        /\ Len(l.dispatched) >= 1
        /\ Tagged(l.answer.text)
        /\ l.answer.used

----------------------------------------------------------------------------
(* Properties of the router: deadlines *)

\* C11: a routed call that exceeds TOOL_CALL_TIMEOUT ends with a timeout
\* error for that call only: adapters, stored connections and routing table
\* are as before, and a later call_tool of the same tool, while the provider
\* is still stored, is dispatched to the same provider.
C11_TimeoutCancelsOnlyTheCall ==
    [][n_calls' = n_calls + 1 =>
        /\ last_call'.status = "timeout" =>
              /\ last_call'.to # None
              /\ wire' = Append(wire, [to |-> last_call'.to, name |-> last_call'.name,
                                       status |-> "timeout"])
              /\ last_call'.result = None
              /\ UNCHANGED <<adapter, stdio_sessions, http_clients, sessions,
                             tools, tool_server_map, tool_transport_map,
                             connected, mgr_pc>>
        /\ (last_call.status = "timeout" /\ last_call'.name = last_call.name
              /\ Stored_(last_call.to)) =>
              /\ last_call'.to = last_call.to
              /\ Len(wire') = Len(wire) + 1
              /\ wire'[Len(wire')].to = last_call.to]_vars

\* C11 witness: a call timed out and the next call of the same tool was
\* sent to the same provider, still Ready, and answered
C11_Witness ==
    /\ Len(wire) = 2
    /\ wire[1].status = "timeout" /\ wire[2].status = "ok"
    /\ wire[1].name = wire[2].name /\ wire[1].to = wire[2].to
    /\ adapter[wire[2].to] = "Ready"
    /\ last_call.result = "payload"

----------------------------------------------------------------------------
(* Properties of the HTTP adapter *)

ToolCallPosts(posts) == {i \in 1..Len(posts) : posts[i].method = "tools/call"}

C18_NotReadyRefuses ==
    [][(http'.last.op \in {"list_tools", "call_tool"} /\ ~http.initialized) =>
          /\ http'.last.status = "not_initialized"
          /\ http'.posts = http.posts
          /\ http'.request_id = http.request_id
          /\ http'.session_id = http.session_id
          /\ ~http'.initialized
          /\ http'.client = http.client]_vars

\* C18 witness: initialize() failed at the notification, and the call_tool
\* that followed was refused
C18_Witness ==
    /\ http.last = [op |-> "call_tool", status |-> "not_initialized"]
    /\ http.client /\ ~http.initialized
    /\ Len(http.posts) = 2
    /\ http.posts[1].method = "initialize" /\ http.posts[1].resp = "json_result"
    /\ http.posts[2].method = "notifications/initialized"
    /\ http.posts[2].resp = "http_error"

\* the provider answered the request with success
Succeeded(post) == post.resp \in {"json_result", "sse_result", "accepted"}

\* C19 as claimed: on one connection the requests go out in the order
\* initialize, then the initialized notification without id, and tools/list
\* or tools/call only after the notification was accepted; the adapter is
\* Ready only if both steps of the handshake succeeded.
C19_HandshakeBeforeTools ==
    LET ps == http.posts
        Handshaken(n) ==
            \E i, k \in 1..n :
                /\ i < k
                /\ ps[i].method = "initialize" /\ ps[i].id # 0 /\ Succeeded(ps[i])
                /\ ps[k].method = "notifications/initialized" /\ ps[k].id = 0
                /\ Succeeded(ps[k])
    IN /\ \A j \in 1..Len(ps) :
             ps[j].method \in {"tools/list", "tools/call"} => Handshaken(j - 1)
       /\ http.initialized => Handshaken(Len(ps))

\* C20 as claimed: if the response to the initialize request carried the
\* session header s, the initialized notification and every later request
\* until close() carry the header with the value s, whatever headers later
\* responses carry.
C20_SessionHeaderKept ==
    LET ps == http.posts IN
    \A i \in 1..Len(ps) :
        (/\ ps[i].method = "initialize"
         /\ ps[i].rheader # None
         /\ \A k \in (i + 1)..Len(ps) : ps[k].method # "initialize") =>
            \A j \in (i + 1)..Len(ps) : ps[j].session = ps[i].rheader

----------------------------------------------------------------------------
(* Properties of result normalization *)

Normalized == norm.transport # None /\ norm.payload # NoText

TextBearing(part) == part.type = "text" \/ (part.type = "resource" /\ part.text # None)

\* C13 as claimed: for both transports a successful result whose content
\* holds several text parts is normalized to the texts of the parts in
\* order with nothing between them: [text "A", text "B"] gives "AB".
C13_TextPartsConcatenated ==
    (/\ Normalized
     /\ Len(norm.content) >= 2
     /\ \A i \in 1..Len(norm.content) : norm.content[i].type = "text") =>
        norm.payload = TextsOf(norm.content)

\* C14 as claimed: a part that is neither a text part nor a resource with
\* inline text adds nothing to the payload: the payload is made of the texts
\* of the text-bearing parts, in order (separators apart), also when no part
\* of the content bears text.
C14_NonTextualPartsDropped ==
    (Normalized /\ norm.content # <<>>) =>
        SelectSeq(norm.payload, LAMBDA tok : tok # "\n")
            = TextsOf(SelectSeq(norm.content, TextBearing))

----------------------------------------------------------------------------
(* Properties of the adapter's life cycle *)

C22_NoResurrection ==
    http.aclosed > 0 => (~http.client /\ ~http.initialized)

\* C23: a response with a status >= 400 makes the operation that sent the
\* request fail; it is not reported as a result, nothing is sent after it
\* within the operation, and the adapter is Ready after it exactly if it was
\* before.
C23_HttpErrorFailsTheCall ==
    [][\A i \in (Len(http.posts) + 1)..Len(http'.posts) :
          http'.posts[i].resp = "http_error" =>
              /\ i = Len(http'.posts)
              /\ http'.last.status \in {"error", "failed"}
              /\ http'.initialized = http.initialized
              /\ http'.client = http.client]_vars

\* C23 witness: a Ready adapter whose tools/call was answered with a status
\* >= 400: the call failed and the adapter is still Ready
C23_Witness ==
    /\ http.last = [op |-> "call_tool", status |-> "error"]
    /\ http.initialized /\ http.client
    /\ http.posts # <<>>
    /\ http.posts[Len(http.posts)].method = "tools/call"
    /\ http.posts[Len(http.posts)].resp = "http_error"

----------------------------------------------------------------------------
(* Properties of the registry *)

\* the scope of connect() was entered and has been left
ScopeLeft == mgr_pc = "exited" /\ exit_how # None

\* C24 as claimed: after the scope of connect() has exited the registry is
\* discarded: get_tools() returns an empty catalog and the routing table
\* has no entry.
C24_RegistryDiscardedAfterExit ==
    ScopeLeft =>
        /\ tools = <<>>
        /\ DOMAIN tool_server_map = {}
        /\ DOMAIN tool_transport_map = {}

\* C25: between the end of registry construction and scope exit no
\* operation, a failed or timed-out call_tool included, changes the merged
\* catalog or the routing table.
C25_RegistryReadOnlyInScope ==
    [][(mgr_pc = "yielded" /\ mgr_pc' = "yielded") =>
          /\ tools' = tools
          /\ tool_server_map' = tool_server_map
          /\ tool_transport_map' = tool_transport_map]_vars

\* C25 witness: inside the scope, with a non-empty registry, one call ran
\* into its deadline and a later one failed at the provider
C25_Witness ==
    /\ mgr_pc = "yielded"
    /\ tools # <<>>
    /\ n_calls = 2
    /\ Len(wire) = 2
    /\ wire[1].status = "timeout"
    /\ wire[2].status = "error"
    /\ wire[2].name \in DOMAIN tool_server_map

\* C28 as claimed: the merged catalog holds at most one descriptor per tool
\* name, also when two providers list the same name.
C28_CatalogNamesUnique ==
    mgr_pc = "yielded" =>
        \A i, j \in 1..Len(tools) : tools[i].name = tools[j].name => i = j

\* C29 as claimed: tools/list is answered only by providers whose handshake
\* completed, and only such providers are routing targets.
C29_OnlyReadyListed ==
    mgr_pc = "yielded" =>
        /\ \A p \in Providers : listed[p] # ListFailed => adapter[p] = "Ready"
        /\ \A t \in DOMAIN tool_server_map : adapter[tool_server_map[t]] = "Ready"

\* C30 as claimed: an HTTP provider skipped at startup because initialize()
\* raised after connect() succeeded is closed no later than scope exit.
C30_SkippedHttpProviderClosed ==
    ScopeLeft =>
        \A p \in Providers :
            TransportOf(p) = "http" => adapter[p] \notin {"Connected", "Ready"}

----------------------------------------------------------------------------
(* Properties of concurrent turns and of aborted turns *)

\* the state of user u's invocation is what the invocation alone produces:
\* the stored conversation is the user's message, followed by the cleaned
\* answer once the turn has returned one; the working list starts with the
\* system prompt and that conversation; the counter counts the completions
\* of the loop
AsIfAlone(u) ==
    LET l == agent[u]
        own == <<Message("user", <<"m">>)>>
        loops == {i \in 1..Len(l.requests) : l.requests[i].kind = "loop"}
    IN IF l.pc = "idle" THEN histories[u] = <<>>
       ELSE /\ l.conversation_history = own
            /\ histories[u] =
                 IF l.pc = "returned" /\ Truthy(l.ret.text)
                 THEN Append(own, Message("assistant", StripIndicator(l.ret.text)))
                 ELSE own
            /\ Len(l.current_messages) >= 2
            /\ SubSeq(l.current_messages, 1, 2) = <<Message("system", <<"SYS">>)>> \o own
            /\ l.iteration = Cardinality(loops)
            /\ l.iteration <= MAX_TOOL_ITERATIONS

\* C26: agent-loop invocations of different users, interleaved at every
\* completion and tool call, do not interfere: a step of one user's
\* invocation leaves the other user's counter, working list and stored
\* conversation as they were, and each invocation's state is the one it
\* reaches alone.
C26_ConcurrentTurnsIsolated ==
    /\ [](\A u \in DOMAIN agent : AsIfAlone(u))
    /\ [][\A u \in DOMAIN agent :
            (agent'[u] # agent[u] \/ histories'[u] # histories[u]) =>
                \A v \in (DOMAIN agent) \ {u} :
                    agent'[v] = agent[v] /\ histories'[v] = histories[v]]_vars

\* C26 witness: u1 is executing the call of its second iteration, while u2,
\* which started in between, has returned an answer that is stored
C26_Witness ==
    /\ DOMAIN agent = ConcurrentUsers
    /\ agent["u1"].pc = "tools" /\ agent["u1"].iteration = 2
    /\ Len(histories["u1"]) = 1
    /\ agent["u2"].pc = "returned" /\ agent["u2"].iteration = 1
    /\ Len(histories["u2"]) = 2

\* C27 as claimed: the text an aborted turn hands back is a fixed message
\* that does not depend on the exception: the text of the exception is no
\* part of it.
C27_AbortTextIsGeneric ==
    \A u \in DOMAIN agent :
        LET l == agent[u] IN
        (l.raised /\ l.pc = "returned") => ~Has(l.answer.text, l.error)

----------------------------------------------------------------------------
(* Properties of the server's startup *)

\* C31 as claimed: when entering connect() raises or exceeds the 30 s
\* limit, startup still completes: a chat service is installed and the
\* application serves requests without MCP tools.
C31_StartupSurvivesMcpFailure ==
    (life.pc \notin {"off", "entering"} /\ enter_error # None) =>
        /\ life.pc = "serving"
        /\ life.installed
        /\ life.chat_service = "without_mcp"
        /\ openrouter_tools = <<>>

----------------------------------------------------------------------------
(* Properties of response bodies *)

\* C32 as claimed: a reply that is a JSON-RPC error object or a malformed
\* frame fails the call with an error in both framings, as the data: line
\* of an event stream just as a plain JSON body; it never becomes a
\* successful result such as "No result".
C32_ErrorReplyFailsTheCall ==
    (/\ sse.outcome # None
     /\ Len(sse.frames) = 1
     /\ sse.frames[1].kind \in {"error", "malformed"}) =>
        sse.outcome = "error"

\* the stream that delivers the same messages one per data: line: every
\* batched array frame is replaced by its objects, in order
RECURSIVE Unbatched(_)
Unbatched(frames) ==
    IF frames = <<>> THEN <<>>
    ELSE LET f == Head(frames)
         IN (IF f.kind = "batch" THEN f.items ELSE <<f>>) \o Unbatched(Tail(frames))

\* C33 as claimed: _parse_sse_response picks the one result it returns by
\* one fixed rule, the same for plain object frames and for batched array
\* frames: what is returned for a stream is what is returned when the same
\* messages arrive as plain object frames.
C33_OneRuleForAllFrames ==
    (sse.framing = "sse" /\ sse.outcome # None) =>
        sse.value = CallToolOutcome(ReadResponse("sse", Unbatched(sse.frames))).value

----------------------------------------------------------------------------
(* Properties of the Telegram bot's loop *)

\* C34: in TelegramBot._process_with_openrouter the list sent at every
\* iteration after the first is the list sent at the previous iteration with
\* that iteration's assistant message and its tool results appended in call
\* order: nothing sent earlier is repeated, dropped or replaced, so the first
\* user message sent (an augmented one included) is still there
C34_NextListExtendsPrevious ==
    [][\A u \in Users :
          (agent[u].fn = "bot" /\ agent[u].pc = "tools" /\ agent'[u].pc = "loop") =>
              LET prev == agent[u].current_messages
                  next == agent'[u].current_messages
                  results == agent'[u].tool_results
              IN /\ Len(next) = Len(prev) + 1 + Len(results)
                 /\ SubSeq(next, 1, Len(prev)) = prev
                 /\ next[Len(prev) + 1].role = "assistant"
                 /\ SubSeq(next, Len(prev) + 2, Len(next)) = results]_vars

\* C35: when the model requested calls at every iteration up to the cap, the
\* completion of iteration == cap was sent without a catalog, and the answer
\* is the output of a tool-free completion, not the text that came with a
\* batch of requested calls
C35_AnswerAtCapIsToolFree ==
    \A u \in Users :
        (/\ agent[u].fn = "bot"
         /\ agent[u].pc = "returned"
         /\ ~agent[u].raised
         /\ agent[u].iteration = BOT_MAX_ITERATIONS
         /\ agent[u].tool_calls # <<>>) =>
            LET last == agent[u].requests[Len(agent[u].requests)]
            IN /\ agent[u].requests[BOT_MAX_ITERATIONS].tools = <<>>
               /\ last.tools = <<>>
               /\ Len(agent[u].dispatched) < Len(agent[u].requests)

----------------------------------------------------------------------------
(* Properties of the server's registry inside the scope *)

\* the manager holds a connected adapter of kind `transport` for provider p
HoldsAdapter(p, transport) ==
    /\ p \in Providers
    /\ TransportOf(p) = transport
    /\ adapter[p] = "Ready"
    /\ IF transport = "http" THEN Has(http_clients, p) ELSE Has(stdio_sessions, p)

CatalogNames == {tools[i].name : i \in 1..Len(tools)}

----------------------------------------------------------------------------
(* Properties of the request ids *)

\* the requests posted so far that carry an id, in send order
IdPosts == SelectSeq(http.posts, LAMBDA q : q.method # "notifications/initialized")

\* C37: whatever the interleaving of the callers of one MCPHttpClient, the
\* ids of the requests it sends are pairwise distinct and strictly
\* increasing in send order starting at 1; a notification carries no id and
\* takes none from the counter
C37_RequestIdsIncreaseFromOne ==
    /\ \A k \in 1..Len(IdPosts) : IdPosts[k].id = k
    /\ \A i, j \in 1..Len(IdPosts) : i < j => IdPosts[i].id < IdPosts[j].id
    /\ \A i \in 1..Len(http.posts) :
          http.posts[i].method = "notifications/initialized" => http.posts[i].id = 0
    /\ http.request_id = Len(IdPosts)

\* requests in flight at once, a notification between two requests with
\* ids, the later request answered before the earlier one
C37_Witness ==
    /\ Len(http.posts) >= 3
    /\ http.posts[1].resp = Pending.kind
    /\ http.posts[1].id = 1
    /\ http.posts[2].method = "notifications/initialized"
    /\ http.posts[3].method = "tools/call"
    /\ http.posts[3].resp = "json_result"
    /\ http.posts[3].id = 2

----------------------------------------------------------------------------
(* Properties of the stored history *)

\* C38: over the turns of one user processed one after another the stored
\* history never holds more than MAX_CONVERSATION_HISTORY + 1 messages, and
\* the turn that finds it at or above MAX_CONVERSATION_HISTORY empties it
\* before storing its user message
C38_HistoryBounded ==
    /\ [](\A u \in Users : Len(histories[u]) <= MAX_CONVERSATION_HISTORY + 1)
    /\ [][\A u \in Users :
            (/\ agent[u].pc = "idle"
             /\ agent'[u].pc # "idle"
             /\ Len(histories[u]) >= MAX_CONVERSATION_HISTORY) =>
                histories'[u] = <<Message("user", <<"m">>)>>]_vars

\* a second turn is under way whose start found the history left by the
\* first at the limit: only its own user message is stored
C38_Witness ==
    \E u \in Users :
        /\ turns = 1
        /\ agent[u].pc \notin {"idle", "returned"}
        /\ histories[u] = <<Message("user", <<"m">>)>>

\* no stored message of user u holds the indicator, requested calls or a
\* tool result
StoredIsPlain(u) ==
    \A i \in 1..Len(histories[u]) :
        /\ "IND" \notin SeqToSet(histories[u][i].content)
        /\ histories[u][i].role \in {"user", "assistant"}
        /\ histories[u][i].tool_calls = <<>>

\* what user u's turn has added to the history it started with (the user
\* message included in conversation_history)
AddedByTurn(u) ==
    SubSeq(histories[u], Len(agent[u].conversation_history) + 1, Len(histories[u]))

\* C39 as claimed: no message stored by process_message contains
\* MCP_USED_INDICATOR, the assistant call messages and tool results of a turn
\* are never stored, and each completed turn adds exactly the user message
\* and one assistant message
C39_TurnAddsUserAndAssistant ==
    \A u \in Users :
        /\ StoredIsPlain(u)
        /\ (agent[u].fn = "chat" /\ agent[u].pc = "returned" /\ ~agent[u].raised) =>
              /\ SubSeq(histories[u], 1, Len(agent[u].conversation_history))
                    = agent[u].conversation_history
              /\ Len(AddedByTurn(u)) = 1
              /\ AddedByTurn(u)[1].role = "assistant"

\* C39 amended: no stored message contains MCP_USED_INDICATOR, requested
\* calls or a tool result; a turn that returns an answer adds the user
\* message and one assistant message, which is that answer without the
\* indicator; a turn that ends without an answer (aborted, or the last
\* completion gave no text) adds the user message only
C39_TurnAddsUserAndAnswerIfAny ==
    \A u \in Users :
        /\ StoredIsPlain(u)
        /\ (agent[u].fn = "chat" /\ agent[u].pc = "returned") =>
              /\ SubSeq(histories[u], 1, Len(agent[u].conversation_history))
                    = agent[u].conversation_history
              /\ agent[u].conversation_history[Len(agent[u].conversation_history)]
                    = Message("user", <<"m">>)
              /\ IF agent[u].answer.text = SORRY
                 THEN AddedByTurn(u) = <<>>
                 ELSE /\ Len(AddedByTurn(u)) = 1
                      /\ AddedByTurn(u)[1].role = "assistant"
                      /\ AddedByTurn(u)[1].content
                            \o (IF agent[u].answer.used THEN MCP_USED_INDICATOR ELSE <<>>)
                            = agent[u].answer.text

\* a turn that executed a tool call has returned its answer with the
\* indicator, after an earlier turn of the same user
C39_Witness ==
    \E u \in Users :
        /\ turns = 1
        /\ agent[u].fn = "chat"
        /\ agent[u].pc = "returned"
        /\ Len(agent[u].dispatched) > 0
        /\ "IND" \in SeqToSet(agent[u].answer.text)
        /\ Len(histories[u]) > 2

====
